---- MODULE Spec2Model ----
(***************************************************************************)
(* Batch-analysis pipeline of the customer feedback analyzer:              *)
(* deduplication, trivial filtering, batching, rate-limited dispatch with  *)
(* retries, the polling orchestrator of analyze_feedback and the expansion *)
(* of per-representative results back to one row per original comment.     *)
(*                                                                         *)
(* A text is a sequence of characters; a character is a one-character      *)
(* string, except the accented letters, which are named ("e_acute").       *)
(* Indices into Python lists are kept 0-based, as in the source.           *)
(***************************************************************************)
EXTENDS Integers, Sequences, FiniteSets, TLC

\* ------------------------------------------------------------------ bounds
\* longest comment list handed to the two deduplicators
MaxComments == 3

\* longest comment column handed to analyze_feedback
MaxFeedback == 2

\* number of concurrent callers of a rate limiter's acquire()
NumCallers == 3

\* the time up to which the rate limiters are followed, in tenths of a second
MaxTime == 12

\* settings.MAX_RPS (8 by default), scaled to the number of callers
MAX_RPS == 1

\* ------------------------------------------------------- string primitives
\* str.lower() on the characters that occur in the texts below
ToLower(c) ==
  CASE c = "E" -> "e"
    [] c = "M" -> "m"
    [] c = "P" -> "p"
    [] c = "T" -> "t"
    [] c = "E_acute" -> "e_acute"
    [] OTHER -> c

lower(s) == [i \in 1..Len(s) |-> ToLower(s[i])]

IsSpace(c) == c = " "

RECURSIVE lstrip(_)
lstrip(s) == IF s /= <<>> /\ IsSpace(Head(s)) THEN lstrip(Tail(s)) ELSE s

RECURSIVE rstrip(_)
rstrip(s) ==
  IF s /= <<>> /\ IsSpace(s[Len(s)]) THEN rstrip(SubSeq(s, 1, Len(s) - 1)) ELSE s

\* str.strip()
strip(s) == rstrip(lstrip(s))

\* str.rstrip(chars)
RECURSIVE rstrip_chars(_, _)
rstrip_chars(s, chars) ==
  IF s /= <<>> /\ s[Len(s)] \in chars
  THEN rstrip_chars(SubSeq(s, 1, Len(s) - 1), chars)
  ELSE s

\* str.split(): the maximal runs of non-whitespace characters, in order
RECURSIVE split_from(_, _, _)
split_from(s, cur, words) ==
  IF s = <<>>
  THEN IF cur = <<>> THEN words ELSE Append(words, cur)
  ELSE IF IsSpace(Head(s))
       THEN split_from(Tail(s), <<>>, IF cur = <<>> THEN words ELSE Append(words, cur))
       ELSE split_from(Tail(s), Append(cur, Head(s)), words)

split(s) == split_from(s, <<>>, <<>>)

\* ' '.join(words)
RECURSIVE join(_)
join(words) ==
  IF words = <<>> THEN <<>>
  ELSE IF Len(words) = 1 THEN words[1]
  ELSE words[1] \o <<" ">> \o join(Tail(words))

\* str.replace(old, new) for a non-empty old: leftmost, non-overlapping
RECURSIVE replace(_, _, _)
replace(s, old, new) ==
  IF Len(s) < Len(old) THEN s
  ELSE IF SubSeq(s, 1, Len(old)) = old
       THEN new \o replace(SubSeq(s, Len(old) + 1, Len(s)), old, new)
       ELSE <<Head(s)>> \o replace(Tail(s), old, new)

\* s[:n]
prefix(s, n) == IF Len(s) > n THEN SubSeq(s, 1, n) ELSE s

\* ------------------------------------------------------------------- texts
T_ok == <<"o","k">>
T_malo == <<"m","a","l","o">>
T_malos == <<"m","a","l","o","s">>
T_Excelente == <<"E","x","c","e","l","e","n","t","e","!">>
T_excelente == <<"e","x","c","e","l","e","n","t","e">>
T_caro == <<"M","u","y"," ","c","a","r","o"," ","y"," ","l","e","n","t","o">>
T_caros == <<"m","u","y"," ","c","a","r","o"," ","y"," ","l","e","n","t","o","s",".">>
T_123 == <<"1","2","3">>
T_pesimo == <<"P","e_acute","s","i","m","o">>
T_long == <<"e","l"," ","s","e","r","v","i","c","i","o"," ","d","e"," ","a","t","e","n","c","i","o","n"," ","a","l"," ","c","l","i","e","n","t","e"," ","f","u","e"," ","m","u","y"," ","l","e","n","t","o"," ","h","o","y">>
T_long2 == <<"e","l"," ","s","e","r","v","i","c","i","o"," ","d","e"," ","a","t","e","n","c","i","o","n"," ","a","l"," ","c","l","i","e","n","t","e"," ","f","u","e"," ","m","u","y"," ","l","e","n","t","o"," ","h","o","y"," ","s","i">>

\* the comment texts the deduplicators are run on: short, trivial, exact
\* duplicates after normalisation, near duplicates, accented, longer than the
\* 50-character prefix key
Pool ==
  { T_ok, T_malo, T_malos, T_Excelente, T_excelente, T_caro, T_caros,
    T_123, T_pesimo, T_long, T_long2 }

\* ------------------------------------------- DeduplicationService (fuzzy)
\* similarity threshold of DeduplicationService(threshold=0.85), as a ratio
THRESHOLD_NUM == 85
THRESHOLD_DEN == 100

\* the (old, new) pairs of _normalize_comment, in the order they are applied
replacements ==
  << << <<".">>, <<>> >>,
     << <<",">>, <<>> >>,
     << <<"!">>, <<>> >>,
     << <<"?">>, <<>> >>,
     << <<"\"">>, <<>> >>,
     << <<"'">>, <<>> >>,
     << <<"t","o","d","o"," ","b","i","e","n">>, <<"b","i","e","n">> >>,
     << <<"m","u","y"," ","b","i","e","n">>, <<"b","i","e","n">> >>,
     << <<"t","o","d","o"," ","m","a","l">>, <<"m","a","l">> >>,
     << <<"m","u","y"," ","m","a","l">>, <<"m","a","l">> >>,
     << <<"e","x","c","e","l","e","n","t","e"," ","s","e","r","v","i","c","i","o">>,
        <<"e","x","c","e","l","e","n","t","e">> >>,
     << <<"p","e","s","i","m","o"," ","s","e","r","v","i","c","i","o">>,
        <<"p","e","s","i","m","o">> >>,
     << <<"m","a","l"," ","s","e","r","v","i","c","i","o">>, <<"m","a","l">> >>,
     << <<"b","u","e","n"," ","s","e","r","v","i","c","i","o">>, <<"b","i","e","n">> >> >>

RECURSIVE apply_replacements(_, _)
apply_replacements(s, k) ==
  IF k > Len(replacements) THEN s
  ELSE apply_replacements(replace(s, replacements[k][1], replacements[k][2]), k + 1)

\* DeduplicationService._normalize_comment
_normalize_comment(comment) ==
  apply_replacements(join(split(strip(lower(comment)))), 1)

\* DeduplicationService._get_hash: md5 of the text; two texts have the same
\* digest exactly when they are equal (collisions are not modelled), so the
\* digest is represented by the text it was computed from
_get_hash(text) == [md5 |-> text]

\* length of the common run of a[i..ahi] and b[j..bhi] starting at i and j
RECURSIVE common_run(_, _, _, _, _, _)
common_run(a, b, i, j, ahi, bhi) ==
  IF i <= ahi /\ j <= bhi /\ a[i] = b[j]
  THEN 1 + common_run(a, b, i + 1, j + 1, ahi, bhi)
  ELSE 0

\* difflib.SequenceMatcher.find_longest_match without junk: the longest
\* block common to a[alo..ahi] and b[blo..bhi]; among the longest the one
\* starting earliest in a, and among those the one starting earliest in b
find_longest_match(a, b, alo, ahi, blo, bhi) ==
  LET cand == (alo..ahi) \X (blo..bhi)
      run == [p \in cand |-> common_run(a, b, p[1], p[2], ahi, bhi)]
      sizes == {run[p] : p \in cand}
      k == CHOOSE n \in sizes : \A m \in sizes : m <= n
      starts_a == {p[1] : p \in {q \in cand : run[q] = k}}
      i == CHOOSE n \in starts_a : \A m \in starts_a : n <= m
      starts_b == {p[2] : p \in {q \in cand : run[q] = k /\ q[1] = i}}
      j == CHOOSE n \in starts_b : \A m \in starts_b : n <= m
  IN  <<i, j, k>>

\* total size of difflib's matching blocks: the longest match, then
\* recursively the pieces to its left and to its right
RECURSIVE matching_size(_, _, _, _, _, _)
\* the block m = <<i, j, k>> plus the blocks to its left and to its right
matching_size_around(a, b, alo, ahi, blo, bhi, m) ==
  IF m[3] = 0 THEN 0
  ELSE m[3]
       + matching_size(a, b, alo, m[1] - 1, blo, m[2] - 1)
       + matching_size(a, b, m[1] + m[3], ahi, m[2] + m[3], bhi)

matching_size(a, b, alo, ahi, blo, bhi) ==
  IF alo > ahi \/ blo > bhi THEN 0
  ELSE matching_size_around(a, b, alo, ahi, blo, bhi,
                            find_longest_match(a, b, alo, ahi, blo, bhi))

\* SequenceMatcher(None, text1, text2).ratio() >= threshold, the ratio being
\* 2*M/T (1.0 when both texts are empty)
ratio_at_least(text1, text2, num, den) ==
  LET T == Len(text1) + Len(text2)
      M == matching_size(text1, text2, 1, Len(text1), 1, Len(text2))
  IN  IF T = 0 THEN num <= den ELSE 2 * M * den >= num * T

\* _normalize_comment of every pool text and the similarity of every ordered
\* pair of normalised pool texts, tabulated once (f @@ <<>> is f as an
\* explicit table)
NormalizedTable == [t \in Pool |-> _normalize_comment(t)] @@ <<>>

normalized_comment(comment) ==
  IF comment \in DOMAIN NormalizedTable
  THEN NormalizedTable[comment]
  ELSE _normalize_comment(comment)

NormPool == { NormalizedTable[t] : t \in Pool }

SimilarTable ==
  [p \in NormPool \X NormPool |->
     ratio_at_least(p[1], p[2], THRESHOLD_NUM, THRESHOLD_DEN)] @@ <<>>

\* SequenceMatcher(None, text1, text2).ratio() >= self.threshold
similarity_verdict(text1, text2) ==
  IF <<text1, text2>> \in DOMAIN SimilarTable
  THEN SimilarTable[<<text1, text2>>]
  ELSE ratio_at_least(text1, text2, THRESHOLD_NUM, THRESHOLD_DEN)

\* self.cache[cache_key] = result; return result
cache_store(cache, cache_key, result) ==
  <<result, cache \cup {<<cache_key, result>>}>>

\* DeduplicationService._is_similar: the cached verdict for the unordered
\* pair when there is one, else the ratio test, which is then cached.
\* Returns <<verdict, cache>>; cache is a set of <<key, verdict>>
_is_similar(text1, text2, cache) ==
  IF \E e \in cache : e[1] = {text1, text2}
  THEN <<(CHOOSE e \in cache : e[1] = {text1, text2})[2], cache>>
  ELSE cache_store(cache, {text1, text2}, similarity_verdict(text1, text2))

\* the inner loop of find_duplicates: the first unique index, from position
\* k of unique_indices on, whose comment is similar to normalized.
\* Returns [found, idx, cache]
RECURSIVE fuzzy_match(_, _, _, _, _)
\* r is what _is_similar returned for the unique index at position k
fuzzy_match_on(normalized, comments, unique_indices, k, r) ==
  IF r[1]
  THEN [found |-> TRUE, idx |-> unique_indices[k], cache |-> r[2]]
  ELSE fuzzy_match(normalized, comments, unique_indices, k + 1, r[2])

fuzzy_match(normalized, comments, unique_indices, k, cache) ==
  IF k > Len(unique_indices)
  THEN [found |-> FALSE, idx |-> -1, cache |-> cache]
  ELSE fuzzy_match_on(normalized, comments, unique_indices, k,
         _is_similar(normalized,
                     normalized_comment(comments[unique_indices[k] + 1]), cache))

\* (a variant that forgets to skip the append to unique_indices)
record_fuzzy_duplicate_both(acc, i, unique_idx, cache) ==
  [acc EXCEPT !.duplicate_map = @ @@ (i :> unique_idx),
              !.unique_indices = Append(@, i),
              !.cache = cache]

\* what find_duplicates does with a comment the fuzzy loop matched to
\* unique_idx: it is recorded as a duplicate and is not made unique
record_fuzzy_duplicate(acc, i, unique_idx, cache) ==
  [acc EXCEPT !.duplicate_map = @ @@ (i :> unique_idx), !.cache = cache]

\* what find_duplicates does with a comment whose hash was seen before
record_exact_duplicate(acc, i, comment_hash) ==
  [acc EXCEPT !.duplicate_map = @ @@ (i :> acc.processed_hashes[comment_hash])]

\* what find_duplicates does with a comment that matched nothing: it
\* becomes a unique comment and its hash is remembered
record_unique(acc, i, comment_hash, cache) ==
  [acc EXCEPT !.unique_indices = Append(@, i),
              !.processed_hashes = @ @@ (comment_hash :> i),
              !.cache = cache]

\* the end of an iteration of find_duplicates, m being what the fuzzy loop
\* returned
record_fuzzy_result(acc, i, comment_hash, m) ==
  IF m.found
  THEN record_fuzzy_duplicate(acc, i, m.idx, m.cache)
  ELSE record_unique(acc, i, comment_hash, m.cache)

\* an iteration of find_duplicates from the hash lookup on
process_normalized(acc, comments, i, normalized) ==
  IF _get_hash(normalized) \in DOMAIN acc.processed_hashes
  THEN record_exact_duplicate(acc, i, _get_hash(normalized))
  ELSE record_fuzzy_result(acc, i, _get_hash(normalized),
         fuzzy_match(normalized, comments, acc.unique_indices, 1, acc.cache))

\* one iteration of the loop of find_duplicates, on comment i (0-based)
find_duplicates_step(acc, comments, i) ==
  IF comments[i + 1] = <<>> \/ Len(strip(comments[i + 1])) < 5
  THEN [acc EXCEPT !.unique_indices = Append(@, i)]
  ELSE process_normalized(acc, comments, i, normalized_comment(comments[i + 1]))

RECURSIVE find_duplicates_from(_, _, _)
find_duplicates_from(acc, comments, i) ==
  IF i >= Len(comments) THEN acc
  ELSE find_duplicates_from(find_duplicates_step(acc, comments, i), comments, i + 1)

\* return unique_indices, duplicate_map
find_duplicates_return(acc) ==
  [unique_indices |-> acc.unique_indices, duplicate_map |-> acc.duplicate_map]

\* DeduplicationService.find_duplicates on a fresh service (empty cache):
\* the unique indices, in order, and the map duplicate index -> original
find_duplicates(comments) ==
  find_duplicates_return(
    find_duplicates_from(
      [unique_indices |-> <<>>, duplicate_map |-> <<>>,
       processed_hashes |-> <<>>, cache |-> {}],
      comments, 0))

\* ------------------------------- EfficientDeduplicationService (hash based)
\* unicodedata.normalize('NFD', c) without the combining marks (category Mn)
strip_accent(c) == IF c = "e_acute" THEN "e" ELSE c

\* EfficientDeduplicationService._normalize_text
_normalize_text(text) ==
  LET lowered == lower(text)
      unaccented == [i \in 1..Len(lowered) |-> strip_accent(lowered[i])]
  IN  rstrip_chars(join(split(unaccented)), {".", ",", "!", "?", ";", ":"})

\* default similarity_threshold=0.85 of deduplicate_comments, as a ratio
SIMILARITY_NUM == 85
SIMILARITY_DEN == 100

RECURSIVE seq_to_set(_)
seq_to_set(s) == IF s = <<>> THEN {} ELSE {Head(s)} \cup seq_to_set(Tail(s))

abs(n) == IF n < 0 THEN -n ELSE n

\* the Jaccard similarity of two word sets > num/den
jaccard_above(words1, words2, num, den) ==
  IF words1 = {} /\ words2 = {} THEN den > num
  ELSE IF words1 = {} \/ words2 = {} THEN 0 > num
  ELSE den * Cardinality(words1 \cap words2) > num * Cardinality(words1 \cup words2)

\* EfficientDeduplicationService._quick_similarity(text1, text2) > num/den:
\* 0.0 when the lengths differ by more than 30%, else the Jaccard similarity
\* of the two word sets
_quick_similarity_above(text1, text2, num, den) ==
  LET len_diff == abs(Len(text1) - Len(text2))
      max_len == IF Len(text1) > Len(text2) THEN Len(text1) ELSE Len(text2)
  IN  IF max_len = 0 THEN den > num
      ELSE IF 10 * len_diff > 3 * max_len THEN 0 > num
      ELSE jaccard_above(seq_to_set(split(text1)), seq_to_set(split(text2)),
                         num, den)

\* the ASCII letters, [a-zA-Z]
AsciiLetters ==
  { "a","b","c","d","e","f","g","h","i","j","k","l","m","n","o","p","q","r",
    "s","t","u","v","w","x","y","z",
    "A","B","C","D","E","F","G","H","I","J","K","L","M","N","O","P","Q","R",
    "S","T","U","V","W","X","Y","Z" }

trivial_phrases ==
  { <<"o","k">>, <<"s","i">>, <<"n","o">>, <<"y","e","s">>,
    <<"b","i","e","n">>, <<"m","a","l">>, <<"b","u","e","n","o">>,
    <<"m","a","l","o">>, <<"g","r","a","c","i","a","s">>,
    <<"t","h","a","n","k","s">>, <<"n","o","n","e">>, <<"n","a","d","a">>,
    <<"n","o","t","h","i","n","g">>, <<"n","/","a">>, <<"n","a">>,
    <<"s","i","n"," ","c","o","m","e","n","t","a","r","i","o","s">>,
    <<"n","o"," ","c","o","m","m","e","n","t">> }

\* EfficientDeduplicationService._is_trivial
_is_trivial(text) ==
  LET clean == strip(text) IN
  \/ Len(clean) < 3
  \/ \A i \in 1..Len(clean) : clean[i] \notin AsciiLetters
  \/ lower(clean) \in trivial_phrases

\* _normalize_text of every pool text, tabulated once
NormalizedTextTable == [t \in Pool |-> _normalize_text(t)] @@ <<>>

normalized_text(text) ==
  IF text \in DOMAIN NormalizedTextTable
  THEN NormalizedTextTable[text]
  ELSE _normalize_text(text)

\* the near-duplicate loop of deduplicate_comments over the indices that
\* share the prefix key: the first one whose text is similar enough, or -1
RECURSIVE near_duplicate_of(_, _, _, _)
near_duplicate_of(normalized_text_i, normalized, similar_indices, k) ==
  IF k > Len(similar_indices) THEN -1
  ELSE IF _quick_similarity_above(normalized_text_i,
                                  normalized[similar_indices[k] + 1],
                                  SIMILARITY_NUM, SIMILARITY_DEN)
       THEN similar_indices[k]
       ELSE near_duplicate_of(normalized_text_i, normalized, similar_indices, k + 1)

\* the end of an iteration of phase 1, similar_idx being what the
\* near-duplicate loop found (-1: nothing)
record_near_result(acc, idx, text_hash, text_key, similar_idx) ==
  IF similar_idx /= -1
  THEN [acc EXCEPT !.duplicate_map = @ @@ (idx :> similar_idx)]
  ELSE [acc EXCEPT
          !.seen_hashes = @ @@ (text_hash :> idx),
          !.seen_normalized =
            IF <<text_key>> \in DOMAIN @
            THEN [@ EXCEPT ![<<text_key>>] = Append(@, idx)]
            ELSE @ @@ (<<text_key>> :> <<idx>>),
          !.filtered_indices = Append(@, idx)]

\* phase 1 of deduplicate_comments, one iteration, on comment idx (0-based)
deduplicate_step(acc, normalized, idx) ==
  LET normalized_text_i == normalized[idx + 1]
      text_hash == [sha256 |-> normalized_text_i]
      text_key == prefix(normalized_text_i, 50)
  IN  IF text_hash \in DOMAIN acc.seen_hashes
      THEN [acc EXCEPT !.duplicate_map = @ @@ (idx :> acc.seen_hashes[text_hash])]
      ELSE record_near_result(acc, idx, text_hash, text_key,
             IF <<text_key>> \in DOMAIN acc.seen_normalized
             THEN near_duplicate_of(normalized_text_i, normalized,
                                    acc.seen_normalized[<<text_key>>], 1)
             ELSE -1)

RECURSIVE deduplicate_from(_, _, _)
deduplicate_from(acc, normalized, idx) ==
  IF idx >= Len(normalized) THEN acc
  ELSE deduplicate_from(deduplicate_step(acc, normalized, idx), normalized, idx + 1)

\* phase 2 of deduplicate_comments: the unique indices whose comment is not
\* trivial, in order
RECURSIVE non_trivial(_, _)
non_trivial(comments, indices) ==
  IF indices = <<>> THEN <<>>
  ELSE IF _is_trivial(comments[Head(indices) + 1])
       THEN non_trivial(comments, Tail(indices))
       ELSE <<Head(indices)>> \o non_trivial(comments, Tail(indices))

\* return final_indices, duplicate_map (and the local trivial_map)
deduplicate_return(filtered_indices, duplicate_map, final_indices) ==
  [filtered_indices |-> final_indices,
   duplicate_map |-> duplicate_map,
   trivial_map |-> seq_to_set(filtered_indices) \ seq_to_set(final_indices)]

\* phase 2 of deduplicate_comments on the outcome of phase 1
filter_trivial(comments, acc) ==
  deduplicate_return(acc.filtered_indices, acc.duplicate_map,
                     non_trivial(comments, acc.filtered_indices))

\* EfficientDeduplicationService.deduplicate_comments: the returned
\* filtered (final) indices and duplicate_map, and the local trivial_map
deduplicate_comments(comments) ==
  IF comments = <<>>
  THEN [filtered_indices |-> <<>>, duplicate_map |-> <<>>, trivial_map |-> {}]
  ELSE filter_trivial(comments,
         deduplicate_from(
           [seen_hashes |-> <<>>, seen_normalized |-> <<>>,
            filtered_indices |-> <<>>, duplicate_map |-> <<>>],
           [i \in 1..Len(comments) |-> normalized_text(comments[i])], 0))

\* ------------------------------------------------------ core/validation.py
\* min_length of validate_comment_length
MIN_COMMENT_LENGTH == 3

\* normalize_feedback_data on the comment column: every comment is stripped
\* and the rows whose stripped comment is shorter than min_length are
\* dropped (the ratings of the rows are taken to be in range)
RECURSIVE normalize_feedback_data(_)
normalize_feedback_data(df) ==
  IF df = <<>> THEN <<>>
  ELSE IF Len(strip(Head(df))) >= MIN_COMMENT_LENGTH
       THEN <<strip(Head(df))>> \o normalize_feedback_data(Tail(df))
       ELSE normalize_feedback_data(Tail(df))

\* ------------------------------------------------- filter_trivial_comments
TRIVIAL_PATTERNS ==
  { <<"o","k">>, <<"b","i","e","n">>, <<"m","a","l">>,
    <<"r","e","g","u","l","a","r">>, <<".">>, <<".",".",".">>, <<"s","i">>,
    <<"n","o">>, <<"g","r","a","c","i","a","s">>, <<"n","a","d","a">>,
    <<"t","o","d","o"," ","b","i","e","n">>,
    <<"s","i","n"," ","c","o","m","e","n","t","a","r","i","o","s">>,
    <<"n","/","a">>, <<"-">>, <<"n","a">>, <<"n","i","n","g","u","n","o">>,
    <<"p","e","r","f","e","c","t","o">>,
    <<"e","x","c","e","l","e","n","t","e">>, <<"p","e","s","i","m","o">>,
    <<"h","o","r","r","i","b","l","e">>, <<"b","u","e","n","o">>,
    <<"m","a","l","o">>, <<"n","o","r","m","a","l">>,
    <<"u_diaeresis","e_diaeresis","c_cedilla">>,
    <<"u_diaeresis","e_diaeresis","e_acute">>, <<"x">> }

\* the characters of '.,!?;:-1234567890 '
PunctuationOrNumbers ==
  { ".", ",", "!", "?", ";", ":", "-",
    "1", "2", "3", "4", "5", "6", "7", "8", "9", "0", " " }

\* the two tests of the loop of filter_trivial_comments, on the stripped and
\* lowered comment
trivial_comment(comment) ==
  \/ Len(comment) < 10 /\ comment \in TRIVIAL_PATTERNS
  \/ \A i \in 1..Len(comment) : comment[i] \in PunctuationOrNumbers

\* filter_trivial_comments(comments, indices): the indices whose comment is
\* not trivial, in order
RECURSIVE filter_trivial_comments(_, _)
filter_trivial_comments(comments, indices) ==
  IF indices = <<>> THEN <<>>
  ELSE IF trivial_comment(lower(strip(comments[Head(indices) + 1])))
       THEN filter_trivial_comments(comments, Tail(indices))
       ELSE <<Head(indices)>> \o filter_trivial_comments(comments, Tail(indices))

\* --------------------------------------------------- prepare_analysis_data
\* comments sent to the API are truncated to this many characters
API_COMMENT_CHARS == 150

\* the tuple prepare_analysis_data returns, without ratings and language
prepare_return(all_comments, duplicate_map, filtered_indices) ==
  [comments_for_api |->
     [k \in 1..Len(filtered_indices) |->
        prefix(all_comments[filtered_indices[k] + 1], API_COMMENT_CHARS)],
   dedup_info |->
     [duplicate_map |-> duplicate_map,
      filtered_indices |-> filtered_indices,
      all_comments |-> all_comments]]

\* prepare_analysis_data from the result of find_duplicates on
prepare_deduplicated(all_comments, found) ==
  prepare_return(all_comments, found.duplicate_map,
                 filter_trivial_comments(all_comments, found.unique_indices))

\* prepare_analysis_data on a normalised, non-empty comment column
prepare_analysis_data(all_comments) ==
  prepare_deduplicated(all_comments, find_duplicates(all_comments))

\* ----------------------------------------------------- optimize_batch_size
\* settings.MAX_BATCH_SIZE (50 by default), scaled to the comment lists
\* explored here
MAX_BATCH_SIZE == 1

max_tokens_per_batch == 3000
reserved_tokens == 2000

\* available_tokens = max_tokens_per_batch - reserved_tokens, for the
\* max_tokens_per_batch the function is called with
available_tokens(max_tokens) == max_tokens - reserved_tokens

\* comments longer than this are truncated before they are counted
MAX_COMMENT_CHARS == 1500

\* count_tokens without a tokenizer: one token per four characters
count_tokens(text) == Len(text) \div 4

\* the loop body, were it to leave out the comment that exceeds the limit
\* instead of giving it a batch of its own
add_to_batches_dropping_oversized(acc, comment, tokens, available, max_size) ==
  IF tokens > available
  THEN IF acc.current_batch /= <<>>
       THEN [batches |-> Append(acc.batches, acc.current_batch),
             current_batch |-> <<>>,
             current_tokens |-> 0]
       ELSE acc
  ELSE IF /\ \/ acc.current_tokens + tokens > available
             \/ Len(acc.current_batch) >= max_size
          /\ acc.current_batch /= <<>>
       THEN [batches |-> Append(acc.batches, acc.current_batch),
             current_batch |-> <<comment>>,
             current_tokens |-> tokens]
       ELSE [acc EXCEPT !.current_batch = Append(@, comment),
                        !.current_tokens = @ + tokens]

\* the body of the batching loop of optimize_batch_size for one comment
\* with its token count; available is available_tokens and max_size is
\* settings.MAX_BATCH_SIZE
add_to_batches(acc, comment, tokens, available, max_size) ==
  IF tokens > available
  THEN IF acc.current_batch /= <<>>
       THEN [batches |-> Append(Append(acc.batches, acc.current_batch), <<comment>>),
             current_batch |-> <<>>,
             current_tokens |-> 0]
       ELSE [acc EXCEPT !.batches = Append(@, <<comment>>)]
  ELSE IF /\ \/ acc.current_tokens + tokens > available
             \/ Len(acc.current_batch) >= max_size
          /\ acc.current_batch /= <<>>
       THEN [batches |-> Append(acc.batches, acc.current_batch),
             current_batch |-> <<comment>>,
             current_tokens |-> tokens]
       ELSE [acc EXCEPT !.current_batch = Append(@, comment),
                        !.current_tokens = @ + tokens]

\* the truncation and the token count of one comment, then the loop body
batch_comment(acc, truncated, available, max_size) ==
  add_to_batches(acc, truncated, count_tokens(truncated), available, max_size)

RECURSIVE batch_from(_, _, _, _, _)
batch_from(acc, comments, k, available, max_size) ==
  IF k > Len(comments) THEN acc
  ELSE batch_from(batch_comment(acc, prefix(comments[k], MAX_COMMENT_CHARS), available, max_size),
                  comments, k + 1, available, max_size)

\* the remaining comments are added as the last batch
batches_return(acc) ==
  IF acc.current_batch /= <<>>
  THEN Append(acc.batches, acc.current_batch)
  ELSE acc.batches

\* utils.optimize_batch_size(comments, max_tokens_per_batch) where
\* settings.MAX_BATCH_SIZE is max_size: the list of batches
optimize_batch_size_of(comments, max_tokens, max_size) ==
  batches_return(
    batch_from([batches |-> <<>>, current_batch |-> <<>>, current_tokens |-> 0],
               comments, 1, available_tokens(max_tokens), max_size))

\* OpenAIAnalyzer.optimize_batch_size(comments): the default budget
optimize_batch_size(comments) ==
  optimize_batch_size_of(comments, max_tokens_per_batch, MAX_BATCH_SIZE)

\* AnalyzerWrapper.optimize_batch_size(comments) where
\* settings.BATCH_SIZE_OPTIMAL is batch_size: comments[i:i+batch_size] for i
\* in range(0, len(comments), batch_size)
wrapper_optimize_batch_size(comments, batch_size) ==
  [b \in 1..((Len(comments) + batch_size - 1) \div batch_size) |->
     SubSeq(comments, (b - 1) * batch_size + 1,
            IF b * batch_size < Len(comments) THEN b * batch_size ELSE Len(comments))]

\* --------------------------------------------------- merge_batch_results
Min(a, b) == IF a < b THEN a ELSE b

\* the dict index_to_result of expand_results_with_duplicates: the i-th
\* filtered index is given the i-th API result, as far as the results reach
index_to_result(api_results, filtered_indices) ==
  LET n == Min(Len(api_results), Len(filtered_indices))
  IN  [idx \in {filtered_indices[i] : i \in 1..n} |->
         api_results[CHOOSE i \in 1..n :
                       /\ filtered_indices[i] = idx
                       /\ \A j \in 1..n : filtered_indices[j] = idx => j <= i]]

\* create_default_result(index): the neutral analysis
create_default_result(index) ==
  [index |-> index, nps_category |-> "passive", is_trivial |-> TRUE]

\* (a variant that does not overwrite the index of the copied result)
api_row_keeping_index(result, idx, original_text, is_duplicate) ==
  [original_text |-> original_text, is_duplicate |-> is_duplicate] @@ result

\* the row made of a copy of an API result: its index, original_text and
\* is_duplicate are overwritten
api_row(result, idx, original_text, is_duplicate) ==
  [index |-> idx, original_text |-> original_text,
   is_duplicate |-> is_duplicate] @@ result

\* the row made of the default result
default_row(idx, original_text) ==
  [original_text |-> original_text] @@ create_default_result(idx)

\* the body of the loop of expand_results_with_duplicates for index idx
expand_row(idx, all_comments, duplicate_map, index_to_result_) ==
  IF idx \in DOMAIN duplicate_map
  THEN IF duplicate_map[idx] \in DOMAIN index_to_result_
       THEN api_row(index_to_result_[duplicate_map[idx]], idx,
                    all_comments[idx + 1], TRUE)
       ELSE default_row(idx, all_comments[idx + 1])
  ELSE IF idx \in DOMAIN index_to_result_
       THEN api_row(index_to_result_[idx], idx, all_comments[idx + 1], FALSE)
       ELSE default_row(idx, all_comments[idx + 1])

RECURSIVE expand_from(_, _, _, _)
expand_from(idx, all_comments, duplicate_map, index_to_result_) ==
  IF idx >= Len(all_comments) THEN <<>>
  ELSE <<expand_row(idx, all_comments, duplicate_map, index_to_result_)>>
       \o expand_from(idx + 1, all_comments, duplicate_map, index_to_result_)

\* expand_results_with_duplicates: complete_results
expand_results_with_duplicates(api_results, all_comments, filtered_indices, duplicate_map) ==
  expand_from(0, all_comments, duplicate_map,
              index_to_result(api_results, filtered_indices))

\* api_results of merge_batch_results: the "comments" of every batch result,
\* in the order of the list
RECURSIVE extend_api_results(_)
extend_api_results(batch_results_) ==
  IF batch_results_ = <<>> THEN <<>>
  ELSE Head(batch_results_).comments \o extend_api_results(Tail(batch_results_))

\* -------------------------------------------------------------- json.loads
\* json.loads on texts without backslashes, control characters and
\* exponents.  A JSON value is a record: t is its type, s the characters of a
\* string, number or literal, keys the keys of an object in the order read,
\* items the values of an object or the elements of an array.
JValue(t_, s_, keys_, items_) == [t |-> t_, s |-> s_, keys |-> keys_, items |-> items_]

JNull == JValue("null", <<"n","u","l","l">>, <<>>, <<>>)

\* json.JSONDecodeError
JsonError == [ok |-> FALSE, val |-> JNull, next |-> 0]

\* a value read, and the index after it
Parsed(val_, next_) == [ok |-> TRUE, val |-> val_, next |-> next_]

Digits == {"0", "1", "2", "3", "4", "5", "6", "7", "8", "9"}

RECURSIVE skip_ws(_, _)
skip_ws(text, i) ==
  IF i <= Len(text) /\ IsSpace(text[i]) THEN skip_ws(text, i + 1) ELSE i

\* the index of the first quote at or after i, 0 when there is none
RECURSIVE scan_string(_, _)
scan_string(text, i) ==
  IF i > Len(text) THEN 0
  ELSE IF text[i] = "\"" THEN i
  ELSE scan_string(text, i + 1)

string_until(text, i, close) ==
  IF close = 0 THEN JsonError
  ELSE Parsed(JValue("string", SubSeq(text, i + 1, close - 1), <<>>, <<>>), close + 1)

\* text[i] is a quote
parse_string(text, i) == string_until(text, i, scan_string(text, i + 1))

\* the index after the digits that start at i
RECURSIVE scan_digits(_, _)
scan_digits(text, i) ==
  IF i <= Len(text) /\ text[i] \in Digits THEN scan_digits(text, i + 1) ELSE i

\* the index after the integer part -?(0|[1-9][0-9]*) at i, 0 when there is
\* none
scan_int(text, i) ==
  IF i > Len(text) THEN 0
  ELSE IF text[i] = "-" THEN
         IF i + 1 > Len(text) \/ text[i + 1] \notin Digits THEN 0
         ELSE IF text[i + 1] = "0" THEN i + 2 ELSE scan_digits(text, i + 1)
  ELSE IF text[i] \notin Digits THEN 0
  ELSE IF text[i] = "0" THEN i + 1 ELSE scan_digits(text, i)

\* the index after the fraction (\.[0-9]+)? at i
scan_frac(text, i) ==
  IF i + 1 <= Len(text) /\ text[i] = "." /\ text[i + 1] \in Digits
  THEN scan_digits(text, i + 1)
  ELSE i

number_until(text, i, int_end) ==
  IF int_end = 0 THEN JsonError
  ELSE Parsed(JValue("number", SubSeq(text, i, scan_frac(text, int_end) - 1), <<>>, <<>>),
              scan_frac(text, int_end))

parse_number(text, i) == number_until(text, i, scan_int(text, i))

parse_literal(text, i, word) ==
  IF i + Len(word) - 1 <= Len(text) /\ SubSeq(text, i, i + Len(word) - 1) = word
  THEN Parsed(JValue(IF word = <<"n","u","l","l">> THEN "null" ELSE "bool", word, <<>>, <<>>),
              i + Len(word))
  ELSE JsonError

RECURSIVE parse_value(_, _)
RECURSIVE array_sep(_, _, _)
RECURSIVE member(_, _, _, _)

\* an element has been read as r: it is added and a separator expected
array_after(text, r, items) ==
  IF ~r.ok THEN JsonError
  ELSE array_sep(text, skip_ws(text, r.next), Append(items, r.val))

array_sep(text, j, items) ==
  IF j > Len(text) THEN JsonError
  ELSE IF text[j] = "," THEN array_after(text, parse_value(text, skip_ws(text, j + 1)), items)
  ELSE IF text[j] = "]" THEN Parsed(JValue("array", <<>>, <<>>, items), j + 1)
  ELSE JsonError

\* j is the index after the bracket and the white space
array_open(text, j) ==
  IF j > Len(text) THEN JsonError
  ELSE IF text[j] = "]" THEN Parsed(JValue("array", <<>>, <<>>, <<>>), j + 1)
  ELSE array_after(text, parse_value(text, j), <<>>)

member_sep(text, j, keys, items) ==
  IF j > Len(text) THEN JsonError
  ELSE IF text[j] = "," THEN member(text, skip_ws(text, j + 1), keys, items)
  ELSE IF text[j] = "}" THEN Parsed(JValue("object", <<>>, keys, items), j + 1)
  ELSE JsonError

member_value(text, r, key, keys, items) ==
  IF ~r.ok THEN JsonError
  ELSE member_sep(text, skip_ws(text, r.next), Append(keys, key), Append(items, r.val))

member_colon(text, j, key, keys, items) ==
  IF j > Len(text) \/ text[j] /= ":" THEN JsonError
  ELSE member_value(text, parse_value(text, skip_ws(text, j + 1)), key, keys, items)

member_key(text, k, keys, items) ==
  IF ~k.ok THEN JsonError
  ELSE member_colon(text, skip_ws(text, k.next), k.val.s, keys, items)

\* a member "key": value is expected at j
member(text, j, keys, items) ==
  IF j > Len(text) \/ text[j] /= "\"" THEN JsonError
  ELSE member_key(text, parse_string(text, j), keys, items)

\* j is the index after the brace and the white space
object_open(text, j) ==
  IF j > Len(text) THEN JsonError
  ELSE IF text[j] = "}" THEN Parsed(JValue("object", <<>>, <<>>, <<>>), j + 1)
  ELSE member(text, j, <<>>, <<>>)

\* the value that starts at i, white space skipped
parse_value(text, i) ==
  IF i > Len(text) THEN JsonError
  ELSE IF text[i] = "{" THEN object_open(text, skip_ws(text, i + 1))
  ELSE IF text[i] = "[" THEN array_open(text, skip_ws(text, i + 1))
  ELSE IF text[i] = "\"" THEN parse_string(text, i)
  ELSE IF text[i] = "n" THEN parse_literal(text, i, <<"n","u","l","l">>)
  ELSE IF text[i] = "t" THEN parse_literal(text, i, <<"t","r","u","e">>)
  ELSE IF text[i] = "f" THEN parse_literal(text, i, <<"f","a","l","s","e">>)
  ELSE parse_number(text, i)

\* the whole text is one value
loads_end(text, r) ==
  IF r.ok /\ skip_ws(text, r.next) = Len(text) + 1 THEN r ELSE JsonError

json_loads(text) == loads_end(text, parse_value(text, skip_ws(text, 1)))

\* ------------------------------------------------------ ResponseValidator
\* str.count(c) for one character
RECURSIVE count_upto(_, _, _)
count_upto(text, c, k) ==
  IF k = 0 THEN 0
  ELSE (IF text[k] = c THEN 1 ELSE 0) + count_upto(text, c, k - 1)

count(text, c) == count_upto(text, c, Len(text))

\* str.endswith(c) for one character
endswith(text, c) == text /= <<>> /\ text[Len(text)] = c

\* the 0-based index of the last occurrence of pat that starts at the
\* 1-based position i or before it, -1 when there is none
RECURSIVE rfind_from(_, _, _)
rfind_from(text, pat, i) ==
  IF i < 1 THEN -1
  ELSE IF SubSeq(text, i, i + Len(pat) - 1) = pat THEN i - 1
  ELSE rfind_from(text, pat, i - 1)

\* str.rfind(pat)
rfind(text, pat) == rfind_from(text, pat, Len(text) - Len(pat) + 1)

\* c * n
repeat(c, n) == [i \in 1..n |-> c]

\* text.rstrip()[:-1] when text.rstrip() ends with a comma
drop_trailing_comma(text) ==
  IF endswith(rstrip(text), ",")
  THEN SubSeq(rstrip(text), 1, Len(rstrip(text)) - 1)
  ELSE text

\* a quote is added when the number of quotes is odd
close_string(text) ==
  IF count(text, "\"") % 2 /= 0 THEN Append(text, "\"") ELSE text

\* ResponseValidator._attempt_json_closure: the open brackets are counted
\* on the text as given; the squares are closed first, then the braces
_attempt_json_closure(text) ==
  close_string(drop_trailing_comma(text))
    \o repeat("]", count(text, "[") - count(text, "]"))
    \o repeat("}", count(text, "{") - count(text, "}"))

recovery_at(text, last_complete) ==
  IF last_complete > 0
  THEN _attempt_json_closure(SubSeq(text, 1, last_complete + 1))
  ELSE text

\* ResponseValidator._attempt_recovery
_attempt_recovery(text) == recovery_at(text, rfind(text, <<"}", ",", "{">>))

\* 'r' in data, for the data it is defined on
contains_r(data) ==
  IF data.t = "object" THEN \E k \in DOMAIN data.keys : data.keys[k] = <<"r">>
  ELSE IF data.t = "array"
       THEN \E k \in DOMAIN data.items :
              data.items[k].t = "string" /\ data.items[k].s = <<"r">>
  ELSE \E k \in DOMAIN data.s : data.s[k] = "r"

\* the last member of an object with the key
RECURSIVE member_of(_, _, _)
member_of(data, key, k) ==
  IF data.keys[k] = key THEN data.items[k] ELSE member_of(data, key, k - 1)

\* data['r'] of a dict that has the key
get_r(data) == member_of(data, <<"r">>, Len(data.keys))

\* len(value) of a list, a dict or a str
py_len(value) ==
  IF value.t = "array" THEN Len(value.items)
  ELSE IF value.t = "object" THEN Cardinality({value.keys[k] : k \in DOMAIN value.keys})
  ELSE Len(value.s)

\* what validate_and_repair returns
Returns(text, is_valid, issues) ==
  [raised |-> FALSE, error |-> "none", text |-> text, is_valid |-> is_valid, issues |-> issues]

\* an exception leaves validate_and_repair
Raises(e) ==
  [raised |-> TRUE, error |-> e, text |-> <<>>, is_valid |-> FALSE, issues |-> <<>>]

with_count(text, actual_count, expected_count, issues) ==
  IF actual_count < expected_count
  THEN Returns(text, FALSE, Append(issues, "incomplete_results"))
  ELSE Returns(text, issues = <<>>, issues)

\* actual_count = len(data['r'])
check_count(text, r, expected_count, issues) ==
  IF r.t \notin {"array", "object", "string"} THEN Raises("TypeError")
  ELSE with_count(text, py_len(r), expected_count, issues)

\* the try block after json.loads has returned data
check_data(text, data, expected_count, issues) ==
  IF data.t \in {"number", "null", "bool"} THEN Raises("TypeError")
  ELSE IF ~contains_r(data) THEN Returns(text, FALSE, Append(issues, "missing_r_key"))
  ELSE IF data.t /= "object" THEN Raises("TypeError")
  ELSE check_count(text, get_r(data), expected_count, issues)

\* the except branch once _attempt_recovery has returned
recovered(text, repaired, issues) ==
  IF repaired /= text /\ json_loads(repaired).ok
  THEN Returns(repaired, FALSE, Append(issues, "recovered"))
  ELSE Returns(text, FALSE, issues)

validate_parsed(text, parsed, expected_count, issues) ==
  IF parsed.ok THEN check_data(text, parsed.val, expected_count, issues)
  ELSE recovered(text, _attempt_recovery(text), Append(issues, "json_error"))

validate_closed(text, expected_count, issues) ==
  validate_parsed(text, json_loads(text), expected_count, issues)

\* ResponseValidator.validate_and_repair(response_text, expected_count)
validate_and_repair(response_text, expected_count) ==
  IF ~endswith(strip(response_text), "}")
  THEN validate_closed(_attempt_json_closure(response_text), expected_count,
                       <<"incomplete_json">>)
  ELSE validate_closed(response_text, expected_count, <<>>)

\* ------------------------------------- OpenAIAnalyzer: reading a response
has_key(obj, key) == \E k \in DOMAIN obj.keys : obj.keys[k] = key

\* float(value) returns: for a number and a boolean; of the strings float()
\* accepts, the strings of digits are modelled; it raises for null, a list
\* and a dict
float_ok(value) ==
  \/ value.t \in {"number", "bool"}
  \/ value.t = "string" /\ value.s /= <<>> /\ \A k \in DOMAIN value.s : value.s[k] \in Digits

\* len(emotions_array) >= 7 and float() of its first seven entries
emotions_ok(e) ==
  \/ e.t = "array" /\ Len(e.items) >= 7 /\ \A k \in 1..7 : float_ok(e.items[k])
  \/ e.t = "string" /\ Len(e.s) >= 7 /\ \A k \in 1..7 : e.s[k] \in Digits

\* the try block of _parse_emotion_object runs to its return
parse_ok(obj) ==
  /\ obj.t = "object"
  /\ has_key(obj, <<"e">>)
  /\ emotions_ok(member_of(obj, <<"e">>, Len(obj.keys)))
  /\ has_key(obj, <<"c">>) => float_ok(member_of(obj, <<"c">>, Len(obj.keys)))

\* a value is true in a condition
truthy(value) ==
  IF value.t = "null" THEN FALSE
  ELSE IF value.t = "array" \/ value.t = "object" THEN value.items /= <<>>
  ELSE IF value.t = "string" THEN value.s /= <<>>
  ELSE IF value.t = "bool" THEN value.s = <<"t", "r", "u", "e">>
  ELSE \E k \in DOMAIN value.s : value.s[k] \in Digits \ {"0"}

\* the result built from an object that parses; its emotions, sentiment
\* score and category are computed from the numbers of the object and are
\* not modelled
parsed_result(obj, index) ==
  [index |-> index,
   parsed |-> TRUE,
   churn_risk |-> IF has_key(obj, <<"c">>) THEN member_of(obj, <<"c">>, Len(obj.keys)).s
                  ELSE <<"0", ".", "5">>,
   pain_points |-> IF has_key(obj, <<"p">>) /\ truthy(member_of(obj, <<"p">>, Len(obj.keys)))
                   THEN <<member_of(obj, <<"p">>, Len(obj.keys))>>
                   ELSE <<>>,
   nps_category |-> "computed"]

\* OpenAIAnalyzer._create_default_result
_create_default_result(index) ==
  [index |-> index,
   parsed |-> FALSE,
   churn_risk |-> <<"0", ".", "5">>,
   pain_points |-> <<>>,
   nps_category |-> "passive"]

\* one round of the loop of _process_response_objects
process_object(obj, index) ==
  IF parse_ok(obj) THEN parsed_result(obj, index) ELSE _create_default_result(index)

\* OpenAIAnalyzer._process_response_objects: the keys of a dict and the
\* characters of a str are strings, which never parse
_process_response_objects(objects) ==
  IF objects.t = "array"
  THEN [i \in 1..Len(objects.items) |-> process_object(objects.items[i], i - 1)]
  ELSE [i \in 1..py_len(objects) |-> _create_default_result(i - 1)]

\* what analyze_batch returns
Analysed(comments_) == [raised |-> FALSE, error |-> "none", comments |-> comments_]

\* an exception leaves analyze_batch
AnalysisRaises(e) == [raised |-> TRUE, error |-> e, comments |-> <<>>]

\* result.get("r", []) and the processing of the objects
process_result(result) ==
  IF result.t /= "object" THEN AnalysisRaises("AttributeError")
  ELSE IF ~has_key(result, <<"r">>) THEN Analysed(<<>>)
  ELSE IF get_r(result).t \in {"number", "null", "bool"} THEN AnalysisRaises("TypeError")
  ELSE Analysed(_process_response_objects(get_r(result)))

\* json.loads(validated_text)
process_validated_text(parsed) ==
  IF ~parsed.ok THEN AnalysisRaises("JSONDecodeError") ELSE process_result(parsed.val)

process_validation(v) ==
  IF v.raised THEN AnalysisRaises(v.error) ELSE process_validated_text(json_loads(v.text))

\* OpenAIAnalyzer.analyze_batch from the response of the API on: the text is
\* validated, loaded and processed; both except clauses raise again
analyze_batch_response(result_text, comment_count) ==
  process_validation(validate_and_repair(result_text, comment_count))

\* ------------------------------------------------------------ NPS calculator
\* a score is the exact fraction num / den, den > 0
Fraction(num_, den_) == [num |-> num_, den |-> den_]

fraction_plus(f, k) == Fraction(f.num + k * f.den, f.den)

fraction_times(f, k) == Fraction(f.num * k, f.den)

fraction_over(f, k) == Fraction(f.num, f.den * k)

fraction_abs(f) == Fraction(IF f.num < 0 THEN -f.num ELSE f.num, f.den)

fraction_equal(f, g) == f.num * g.den = g.num * f.den

fraction_at_most(f, g) == f.num * g.den <= g.num * f.den

\* the value of the method argument when it is left out
None == "None"

\* NPSMethod
NPSMethods == {"standard", "absolute", "weighted", "shifted"}

\* the fields of Settings that calculate_nps_score reads,
\* NPS_CALCULATION_METHOD and NPS_PASSIVE_WEIGHT: Settings defines neither
SettingsFields == {}

\* what calculate_nps_score returns
Score(f) == [raised |-> FALSE, error |-> "none", score |-> f]

\* an exception leaves the calculator
ScoreRaises(e) == [raised |-> TRUE, error |-> e, score |-> Fraction(0, 1)]

\* the branches of calculate_nps_score for total_responses /= 0
score_by_method(promoter_count, passive_count, detractor_count, total_responses, method) ==
  IF method = "absolute"
  THEN Score(fraction_abs(fraction_times(
         Fraction(promoter_count - detractor_count, total_responses), 100)))
  ELSE IF method = "weighted"
  THEN ScoreRaises("AttributeError")
  ELSE IF method = "shifted"
  THEN Score(fraction_times(fraction_plus(
         Fraction(promoter_count - detractor_count, total_responses), 1), 50))
  ELSE Score(fraction_times(
         Fraction(promoter_count - detractor_count, total_responses), 100))

\* calculate_nps_score(promoter_count, passive_count, detractor_count, method)
calculate_nps_score(promoter_count, passive_count, detractor_count, method) ==
  IF method = None /\ "NPS_CALCULATION_METHOD" \notin SettingsFields
  THEN ScoreRaises("AttributeError")
  ELSE IF promoter_count + passive_count + detractor_count = 0
  THEN Score(Fraction(0, 1))
  ELSE score_by_method(promoter_count, passive_count, detractor_count,
                       promoter_count + passive_count + detractor_count, method)

\* the metrics dict: the score and the counts it was computed from; the
\* score raises when the score function does
Metrics(score_, promoter_count, passive_count, detractor_count) ==
  IF score_.raised THEN score_
  ELSE [promoters |-> promoter_count, passives |-> passive_count,
        detractors |-> detractor_count] @@ score_

\* calculate_nps_metrics_modular(nps_counts): the score of the metrics; both
\* branches read settings.NPS_CALCULATION_METHOD
calculate_nps_metrics_modular(promoter_count, passive_count, detractor_count) ==
  IF "NPS_CALCULATION_METHOD" \notin SettingsFields
  THEN ScoreRaises("AttributeError")
  ELSE IF promoter_count + passive_count + detractor_count = 0
  THEN Metrics(Score(Fraction(50, 1)), 0, 0, 0)
  ELSE Metrics(calculate_nps_score(promoter_count, passive_count, detractor_count, None),
               promoter_count, passive_count, detractor_count)

\* calculate_nps_category(rating)
calculate_nps_category(rating) ==
  IF rating <= 6 THEN "detractor" ELSE IF rating <= 8 THEN "passive" ELSE "promoter"

\* merge_batch_results: the rows it expands, the batch count, and the NPS
\* metrics of the counts taken from the ratings of the original file, or the
\* exception calculate_nps_metrics leaves it with
merge_batch_results(batch_results_, dedup_info_, nps_counts_) ==
  [run |-> TRUE,
   rows |-> expand_results_with_duplicates(
              extend_api_results(batch_results_), dedup_info_.all_comments,
              dedup_info_.filtered_indices, dedup_info_.duplicate_map),
   batch_count |-> Len(batch_results_),
   nps_counts |-> nps_counts_,
   nps |-> calculate_nps_metrics_modular(nps_counts_.promoter, nps_counts_.passive,
                                         nps_counts_.detractor)]

\* ================================================================== state
VARIABLES
  comments,          \* the comment list handed to the deduplicators, or the
                     \* comment column of the uploaded file
  dedup_result,      \* what find_duplicates returned for it, or NotRun
  efficient_result,  \* what deduplicate_comments returned for it, or NotRun
  pc,                \* where analyze_feedback is: "idle", "start", "poll",
                     \* "done", "failed"
  retries,           \* self.request.retries of analyze_feedback
  elapsed,           \* elapsed of the polling loop
  status,            \* status stored by status_service for the task
  error,             \* error stored with the status, "none" when absent
  dedup_info,        \* dedup_info of prepare_analysis_data, or NotRun
  batches,           \* the batches of optimize_batch_size
  batch_results,     \* the AsyncResult of every analyze_batch subtask
  batch_analysis_results, \* the list handed to merge_batch_results
  merged,            \* what merge_batch_results had built when it ended, or
                     \* NotRun
  final_results,     \* what store_analysis_results stored, or NotRun
  limiter,           \* which of the three rate limiters is in use
  clock,             \* the time, in tenths of a second
  callers,           \* for every caller of acquire(): where it is, the now
                     \* it read and how long it still sleeps
  request_times,     \* request_times of RateLimiter / AsyncOpenAIAnalyzer
  zset,              \* the scores of the Redis sorted set openai_rate_limit
  lock,              \* the caller holding RateLimiter.lock, 0 when free
  admitted,          \* for every caller, when its acquire() returned
  analyzer,          \* the analyzer a batch is dispatched to
  dpc,               \* where the dispatch of the batch is: "idle", "call",
                     \* "done"
  task_state,        \* the state of the analyze_batch subtask's AsyncResult
  task_retries,      \* self.request.retries of analyze_batch
  attempt,           \* the attempt of the analyzer's retry loop
  calls,             \* how each LLM call made for the batch ended
  outcome,           \* how the dispatch ended: what it returned or raised
  batch_config,      \* the batcher in use, the max_tokens_per_batch it is
                     \* called with and the batch size of the settings
  batcher_result,    \* the batches it returned, or NotRun
  response_text,     \* the raw text of an LLM response
  expected_count,    \* the number of comments the response is to cover
  validation,        \* what validate_and_repair did with it, or NotRun
  analysis,          \* what analyze_batch did with it, or NotRun
  nps_counts,        \* the promoter, passive and detractor counts
  method,            \* the method argument of calculate_nps_score
  nps_score,         \* what calculate_nps_score returned, or NotRun
  nps_metrics,       \* the score of calculate_nps_metrics_modular, or NotRun
  normalizer,        \* the normalisation applied: "_normalize_text" or
                     \* "_normalize_comment"
  raw_text,          \* the text it is applied to
  normalized,        \* what it returned for raw_text, or NotRun
  renormalized,      \* what it returned for that result, or NotRun
  cancelled,         \* an external cancellation signal has been raised
  semaphore,         \* the free slots of AsyncOpenAIAnalyzer.semaphore
  coroutines,        \* the analyze_batch coroutines of analyze_all_batches:
                     \* where each is, its attempt, the _rate_limit() calls it
                     \* completed, the requests it sent, and its outcome
  comment_count,     \* the number of comments handed to ParallelProcessor
  cache_hits,        \* the indices of the comments the cache has a value for
  cached_results,    \* split_cached_uncached's dict, or NotRun
  uncached_indices,  \* its uncached indices
  new_results,       \* what analyze_all_batches returned, or NotRun
  merge_result,      \* what merge_results returned, or NotRun
  queue,             \* the messages of the queue "analysis", oldest first
  pool,              \* what each process of the Celery worker runs
  parents            \* the analyze_feedback tasks: where each is, its
                     \* execution (request.retries), the rounds of its
                     \* polling loop, and the subtasks it has seen ready

dedup_vars == <<dedup_result, efficient_result>>

task_vars == <<pc, retries, elapsed, status, error>>

batch_vars == <<dedup_info, batches, batch_results>>

result_vars == <<batch_analysis_results, merged, final_results>>

limiter_vars == <<limiter, clock, callers, request_times, zset, lock, admitted>>

dispatch_vars == <<analyzer, dpc, task_state, task_retries, attempt, calls, outcome>>

batcher_vars == <<batch_config, batcher_result>>

validator_vars == <<response_text, expected_count, validation, analysis>>

nps_vars == <<nps_counts, method, nps_score, nps_metrics>>

\* the variables of the functions that are run on their own
normalize_vars == <<normalizer, raw_text, normalized, renormalized>>

\* what the environment tells the run
signal_vars == <<cancelled>>

\* the variables of the specifications that follow the functions
\* the coroutines of one AsyncOpenAIAnalyzer
worker_vars == <<semaphore, coroutines>>

\* one ParallelProcessor._async_process with the cache
cache_vars == <<comment_count, cache_hits, cached_results, uncached_indices, new_results, merge_result>>

\* the tasks on the worker pool
pool_vars == <<queue, pool, parents>>

later_vars == <<signal_vars, worker_vars, cache_vars, pool_vars>>

call_vars == <<validator_vars, nps_vars, normalize_vars, later_vars>>

vars == <<comments, dedup_vars, task_vars, batch_vars, result_vars, limiter_vars, dispatch_vars, batcher_vars, call_vars>>

NotRun == [run |-> FALSE]

\* the comment lists of at most n pool texts
CommentLists(n) == UNION { [1..k -> Pool] : k \in 0..n }

\* analyze_feedback has not been sent
TaskIdle ==
  /\ pc = "idle"
  /\ retries = 0
  /\ elapsed = 0
  /\ status = "queued"
  /\ error = "none"
  /\ dedup_info = NotRun
  /\ batches = <<>>
  /\ batch_results = <<>>
  /\ batch_analysis_results = <<>>
  /\ merged = NotRun
  /\ final_results = NotRun

\* no rate limiter is in use
LimiterIdle ==
  /\ limiter = "none"
  /\ clock = 0
  /\ callers = <<>>
  /\ request_times = <<>>
  /\ zset = {}
  /\ lock = 0
  /\ admitted = <<>>
NoOutcome == [how |-> "none", value |-> "none"]

\* no batch is being dispatched
DispatchIdle ==
  /\ analyzer = "none"
  /\ dpc = "idle"
  /\ task_state = "none"
  /\ task_retries = 0
  /\ attempt = 0
  /\ calls = <<>>
  /\ outcome = NoOutcome

\* no batcher is run on its own
BatcherIdle ==
  /\ batch_config = [batcher |-> "none"]
  /\ batcher_result = NotRun

\* no response is validated on its own
ValidatorIdle ==
  /\ response_text = <<>>
  /\ expected_count = 0
  /\ validation = NotRun
  /\ analysis = NotRun

\* no score is calculated on its own
NpsIdle ==
  /\ nps_counts = [promoter |-> 0, passive |-> 0, detractor |-> 0]
  /\ method = None
  /\ nps_score = NotRun
  /\ nps_metrics = NotRun

\* no text is normalised on its own
NormalizeIdle ==
  /\ normalizer = "none"
  /\ raw_text = <<>>
  /\ normalized = NotRun
  /\ renormalized = NotRun

\* no signal has been raised
SignalIdle == cancelled = FALSE

\* no AsyncOpenAIAnalyzer runs its batches
WorkersIdle ==
  /\ semaphore = 0
  /\ coroutines = <<>>

\* nothing is processed through the cache
CacheIdle ==
  /\ comment_count = 0
  /\ cache_hits = {}
  /\ cached_results = NotRun
  /\ uncached_indices = <<>>
  /\ new_results = NotRun
  /\ merge_result = NotRun

\* no task is on the pool
PoolIdle ==
  /\ queue = <<>>
  /\ pool = <<>>
  /\ parents = <<>>

LaterIdle == SignalIdle /\ WorkersIdle /\ CacheIdle /\ PoolIdle

CallsIdle == ValidatorIdle /\ NpsIdle /\ NormalizeIdle /\ LaterIdle


\* ------------------------------------------- specification: deduplication
InitDedup ==
  /\ comments \in CommentLists(MaxComments)
  /\ dedup_result = NotRun
  /\ efficient_result = NotRun
  /\ TaskIdle
  /\ LimiterIdle
  /\ DispatchIdle
  /\ BatcherIdle
  /\ CallsIdle

\* DeduplicationService(threshold=0.85).find_duplicates(comments)
FindDuplicates ==
  /\ pc = "idle"
  /\ dedup_result = NotRun
  /\ dedup_result' = find_duplicates(comments)
  /\ UNCHANGED <<comments, efficient_result, task_vars, batch_vars, result_vars>>
  /\ UNCHANGED <<limiter_vars, dispatch_vars, batcher_vars, call_vars>>

\* EfficientDeduplicationService().deduplicate_comments(comments)
DeduplicateComments ==
  /\ pc = "idle"
  /\ efficient_result = NotRun
  /\ efficient_result' = deduplicate_comments(comments)
  /\ UNCHANGED <<comments, dedup_result, task_vars, batch_vars, result_vars>>
  /\ UNCHANGED <<limiter_vars, dispatch_vars, batcher_vars, call_vars>>

NextDedup == FindDuplicates \/ DeduplicateComments

SpecDedup == InitDedup /\ [][NextDedup]_vars

\* ------------------------------------------ specification: analyze_feedback
\* the comment columns of the uploaded files explored: a comment too short
\* to be kept, a trivial one, two near duplicates and an unrelated one
FeedbackPool == { T_ok, T_123, T_caro, T_caros, T_pesimo }

FeedbackLists(n) == UNION { [1..k -> FeedbackPool] : k \in 0..n }

T_x == <<"x">>

\* the comment column and the ratings of a file of four rows: a comment
\* twice, a one-letter comment and a complaint
ScenarioComments == <<T_Excelente, T_Excelente, T_x, T_caro>>

ScenarioRatings == <<9, 9, 1, 2>>

\* max_retries of the task analyze_feedback
max_retries == 3

\* max_wait and poll_interval of the polling loop, in seconds
max_wait == 180
poll_interval == 1

\* GroupResult.ready(): every subtask is in a ready state
ready(results) == \A b \in 1..Len(results) : results[b].state /= "PENDING"

\* number of comments in the batches before batch b
RECURSIVE batch_offset(_, _)
batch_offset(batches_, b) ==
  IF b <= 1 THEN 0 ELSE Len(batches_[b - 1]) + batch_offset(batches_, b - 1)

\* what analyze_batch returns for batch b when the response holds k objects:
\* one processed result per object, in the order of the response.  Object j
\* is the analysis of comment j of the batch; analysis_of names the original
\* index of that comment (-1 for an object beyond the comments of the batch),
\* of_batch the batch the result was returned for
batch_result(b, k) ==
  [comments |->
     [j \in 1..k |->
        [index |-> j - 1,
         analysis_of |->
           IF j <= Len(batches[b])
           THEN dedup_info.filtered_indices[batch_offset(batches, b) + j]
           ELSE -1]],
   of_batch |-> b - 1]

\* the results of the successful subtasks, in the order of
\* batch_results.results
RECURSIVE collect_successful(_)
collect_successful(results) ==
  IF results = <<>> THEN <<>>
  ELSE IF Head(results).state = "SUCCESS"
       THEN <<Head(results).result>> \o collect_successful(Tail(results))
       ELSE collect_successful(Tail(results))

InitPipeline ==
  /\ comments \in FeedbackLists(MaxFeedback) \cup {ScenarioComments}
  /\ dedup_result = NotRun
  /\ efficient_result = NotRun
  /\ pc = "start"
  /\ retries = 0
  /\ elapsed = 0
  /\ status = "queued"
  /\ error = "none"
  /\ dedup_info = NotRun
  /\ batches = <<>>
  /\ batch_results = <<>>
  /\ batch_analysis_results = <<>>
  /\ merged = NotRun
  /\ final_results = NotRun
  /\ LimiterIdle
  /\ DispatchIdle
  /\ BatcherIdle
  /\ CallsIdle

\* the except branch of analyze_feedback: _handle_task_error marks the task
\* failed and, while retries are left, has the task run again
handle_task_error(err) ==
  /\ status' = "failed"
  /\ error' = err
  /\ IF retries < max_retries
     THEN pc' = "start" /\ retries' = retries + 1
     ELSE pc' = "failed" /\ UNCHANGED retries

\* analyze_feedback from group(...).apply_async() on, for the prepared data
submit_batches(prepared, batches_) ==
  /\ dedup_info' = prepared.dedup_info
  /\ batches' = batches_
  /\ batch_results' = [b \in 1..Len(batches_) |-> [state |-> "PENDING"]]

\* analyze_feedback up to the polling loop, for the normalised comments
prepare_and_submit(prepared) ==
  submit_batches(prepared, optimize_batch_size(prepared.comments_for_api))

\* analyze_feedback from its start to the polling loop, with the locals of a
\* new execution: mark_task_started,
\* prepare_analysis_data (ValueError when nothing is left after
\* normalisation), optimize_batch_size and the group of analyze_batch tasks
StartAnalysis ==
  /\ pc = "start"
  /\ IF normalize_feedback_data(comments) = <<>>
     THEN /\ handle_task_error("ValueError")
          /\ UNCHANGED <<elapsed, batch_vars>>
     ELSE /\ prepare_and_submit(prepare_analysis_data(normalize_feedback_data(comments)))
          /\ status' = "processing"
          /\ error' = "none"
          /\ pc' = "poll"
          /\ elapsed' = 0
          /\ UNCHANGED retries
  /\ batch_analysis_results' = <<>>
  /\ merged' = NotRun
  /\ UNCHANGED <<comments, dedup_vars, final_results>>
  /\ UNCHANGED <<limiter_vars, dispatch_vars, batcher_vars, call_vars>>

\* an analyze_batch subtask ends in SUCCESS with k processed results: as
\* many as the batch has comments, fewer, or one more
BatchSucceeds ==
  /\ pc = "poll"
  /\ \E b \in 1..Len(batches) : \E k \in 0..(Len(batches[b]) + 1) :
       /\ batch_results[b].state = "PENDING"
       /\ batch_results' =
            [batch_results EXCEPT ![b] = [state |-> "SUCCESS",
                                          result |-> batch_result(b, k)]]
  /\ UNCHANGED <<comments, dedup_vars, task_vars, dedup_info, batches, result_vars>>
  /\ UNCHANGED <<limiter_vars, dispatch_vars, batcher_vars, call_vars>>

\* an analyze_batch subtask ends in FAILURE
BatchFails ==
  /\ pc = "poll"
  /\ \E b \in 1..Len(batches) :
       /\ batch_results[b].state = "PENDING"
       /\ batch_results' = [batch_results EXCEPT ![b] = [state |-> "FAILURE"]]
  /\ UNCHANGED <<comments, dedup_vars, task_vars, dedup_info, batches, result_vars>>
  /\ UNCHANGED <<limiter_vars, dispatch_vars, batcher_vars, call_vars>>

\* the polling loop, were it to start counting again at max_wait
Sleep_counting_again ==
  /\ pc = "poll"
  /\ ~ready(batch_results)
  /\ elapsed' = (elapsed + poll_interval) % max_wait
  /\ UNCHANGED <<comments, dedup_vars, pc, retries, status, error, batch_vars, result_vars>>
  /\ UNCHANGED <<limiter_vars, dispatch_vars, batcher_vars, call_vars>>

\* one round of the polling loop that finds the group not ready
Sleep ==
  /\ pc = "poll"
  /\ elapsed < max_wait
  /\ ~ready(batch_results)
  /\ elapsed' = elapsed + poll_interval
  /\ UNCHANGED <<comments, dedup_vars, pc, retries, status, error, batch_vars, result_vars>>
  /\ UNCHANGED <<limiter_vars, dispatch_vars, batcher_vars, call_vars>>

\* the loop has run for max_wait and the group is still not ready:
\* analyze_feedback raises TimeoutError
Timeout ==
  /\ pc = "poll"
  /\ elapsed >= max_wait
  /\ ~ready(batch_results)
  /\ handle_task_error("TimeoutError")
  /\ UNCHANGED <<comments, dedup_vars, elapsed, batch_vars, result_vars>>
  /\ UNCHANGED <<limiter_vars, dispatch_vars, batcher_vars, call_vars>>

\* the counts of the NPS categories of the ratings of a file with n rows
\* (the ratings themselves are not part of the state)
CategoryCounts(n) ==
  {c \in [promoter : 0..n, passive : 0..n, detractor : 0..n] :
     c.promoter + c.passive + c.detractor = n}

\* the rest of analyze_feedback once merge_batch_results has ended: with an
\* exception the except branch runs, otherwise the results are stored and
\* the task is marked completed
store_or_fail(merged_) ==
  /\ merged' = merged_
  /\ IF merged_.nps.raised
     THEN /\ handle_task_error(merged_.nps.error)
          /\ UNCHANGED final_results
     ELSE /\ final_results' = merged_
          /\ status' = "completed"
          /\ error' = "none"
          /\ pc' = "done"
          /\ UNCHANGED retries

\* the rest of analyze_feedback for the list it collected
merge_and_store(collected, nps_counts_) ==
  /\ batch_analysis_results' = collected
  /\ store_or_fail(merge_batch_results(collected, dedup_info, nps_counts_))

\* the group is ready: the results of the successful subtasks are collected
\* and merged; merge_batch_results expands the rows and then asks for the NPS
\* metrics. elapsed is a local of the polling loop that nothing reads once
\* the loop is left
Collect ==
  /\ pc = "poll"
  /\ ready(batch_results)
  /\ \E nps_counts_ \in CategoryCounts(Len(comments)) :
       merge_and_store(collect_successful(batch_results), nps_counts_)
  /\ elapsed' = 0
  /\ UNCHANGED <<comments, dedup_vars, batch_vars>>
  /\ UNCHANGED <<limiter_vars, dispatch_vars, batcher_vars, call_vars>>

NextPipeline ==
  \/ StartAnalysis
  \/ BatchSucceeds
  \/ BatchFails
  \/ Sleep
  \/ Timeout
  \/ Collect

SpecPipeline == InitPipeline /\ [][NextPipeline]_vars

\* ------------------------------------------- specification: the wait
\* analyze_feedback as above, on files of at most MaxWaited rows, with
\* the scheduling its process has once it is in the polling loop: time.sleep
\* returns, and a statement that can run does run.  Nothing is assumed of the subtasks, which may stay
\* PENDING for ever.
MaxWaited == 1

\* a comment that the normalisation drops and two that are analysed
WaitPool == {T_ok, T_caro, T_pesimo}

InitWait ==
  /\ InitPipeline
  /\ Len(comments) <= MaxWaited
  /\ \A k \in DOMAIN comments : comments[k] \in WaitPool

SpecWait ==
  /\ InitWait
  /\ [][NextPipeline]_vars
  /\ WF_vars(Sleep)
  /\ WF_vars(Timeout)
  /\ WF_vars(Collect)

\* ------------------------------------------ specification: cancellation
\* While analyze_feedback polls, somebody raises a cancellation signal for
\* the run.  Neither the polling loop (tasks.py 130-158) nor anything else
\* in analyze_feedback reads a signal, so the action changes nothing the
\* task sees.
Cancel ==
  /\ pc = "poll"
  /\ ~cancelled
  /\ cancelled' = TRUE
  /\ UNCHANGED <<comments, dedup_vars, task_vars, batch_vars, result_vars>>
  /\ UNCHANGED <<limiter_vars, dispatch_vars, batcher_vars>>
  /\ UNCHANGED <<validator_vars, nps_vars, normalize_vars, worker_vars, cache_vars, pool_vars>>

NextCancel ==
  \/ NextPipeline
  \/ Cancel

SpecCancel == InitPipeline /\ [][NextCancel]_vars

\* ------------------------------------------- specification: rate limiters
\* Time is counted in tenths of a second.  A caller is one coroutine or
\* worker that calls acquire() once.
Callers == 1..NumCallers

\* the three limiters of the adapters
Limiters == {"GlobalRateLimiter", "RateLimiter", "AsyncOpenAIAnalyzer"}

\* the 1.0 second window of the limiters
WINDOW == 10

\* asyncio.sleep(0.1) of GlobalRateLimiter.acquire between two tries
RETRY_SLEEP == 1

\* the caller has not been admitted
NotAdmitted == -1

\* where a caller is while it sleeps
Sleeping == {"sleep_retry", "sleep_fallback", "sleep_limit"}

\* a caller that is not sleeping: about to call acquire(), or returned
Caller(pc_) == [pc |-> pc_, now |-> 0, sleep_left |-> 0]

InitLimiter ==
  /\ comments = <<>>
  /\ dedup_result = NotRun
  /\ efficient_result = NotRun
  /\ TaskIdle
  /\ limiter \in Limiters
  /\ clock = 0
  /\ callers = [c \in Callers |-> Caller("call")]
  /\ request_times = <<>>
  /\ zset = {}
  /\ lock = 0
  /\ admitted = [c \in Callers |-> NotAdmitted]
  /\ DispatchIdle
  /\ BatcherIdle
  /\ CallsIdle

\* acquire() returns to caller c
admit(c) ==
  /\ admitted' = [admitted EXCEPT ![c] = clock]
  /\ callers' = [callers EXCEPT ![c] = Caller("done")]

\* caller c suspends in asyncio.sleep for sleep_ tenths of a second; now_ is
\* the time it read before
suspend(c, pc_, now_, sleep_) ==
  /\ callers' = [callers EXCEPT ![c] = [pc |-> pc_, now |-> now_, sleep_left |-> sleep_]]
  /\ UNCHANGED admitted

\* the caller's sleep has ended and it has not resumed yet
Due(c) == callers[c].pc \in Sleeping /\ callers[c].sleep_left = 0

\* a tenth of a second passes; a caller resumes in the tenth of a second in
\* which its sleep ends
Tick ==
  /\ limiter \in Limiters
  /\ clock < MaxTime
  /\ \A c \in Callers : ~Due(c)
  /\ clock' = clock + 1
  /\ callers' = [c \in Callers |->
                   IF callers[c].sleep_left > 0
                   THEN [callers[c] EXCEPT !.sleep_left = @ - 1]
                   ELSE callers[c]]
  /\ UNCHANGED <<limiter, request_times, zset, lock, admitted>>
  /\ UNCHANGED <<comments, dedup_vars, task_vars, batch_vars, result_vars, dispatch_vars, batcher_vars, call_vars>>

\* the members left by zremrangebyscore(key, 0, now - 1.0)
zremrangebyscore(members, now_) == {t \in members : t > now_ - WINDOW}

\* what acquire does with current_count, the zcard after the cleanup
global_decide(c, current_count) ==
  IF current_count < MAX_RPS
  THEN admit(c)
  ELSE suspend(c, "sleep_retry", 0, RETRY_SLEEP)

\* GlobalRateLimiter.acquire, one round of the loop for caller c:
\* now = time.time() and pipe.execute(), which runs the four commands as one
\* transaction (the member added is str(now), so two rounds that read the
\* same now share one member); then the count is compared with max_rps
global_round(c) ==
  /\ zset' = zremrangebyscore(zset, clock) \cup {clock}
  /\ global_decide(c, Cardinality(zremrangebyscore(zset, clock)))

\* GlobalRateLimiter.acquire: the first round of the loop
GlobalExecute ==
  /\ limiter = "GlobalRateLimiter"
  /\ \E c \in Callers :
       /\ callers[c].pc = "call"
       /\ global_round(c)
  /\ UNCHANGED <<limiter, clock, request_times, lock>>
  /\ UNCHANGED <<comments, dedup_vars, task_vars, batch_vars, result_vars, dispatch_vars, batcher_vars, call_vars>>

\* 1.0 / max_rps seconds, in tenths, rounded up
fallback_sleep == (WINDOW + MAX_RPS - 1) \div MAX_RPS

\* GlobalRateLimiter.acquire: the Redis call raises; the except branch
\* sleeps 1.0 / max_rps and leaves the loop
GlobalRedisError ==
  /\ limiter = "GlobalRateLimiter"
  /\ \E c \in Callers :
       /\ \/ callers[c].pc = "call"
          \/ Due(c) /\ callers[c].pc = "sleep_retry"
       /\ suspend(c, "sleep_fallback", 0, fallback_sleep)
  /\ UNCHANGED <<limiter, clock, request_times, zset, lock>>
  /\ UNCHANGED <<comments, dedup_vars, task_vars, batch_vars, result_vars, dispatch_vars, batcher_vars, call_vars>>

\* GlobalRateLimiter.acquire: the sleep of a refused round ends and the
\* next round of the loop runs
GlobalRetry ==
  /\ limiter = "GlobalRateLimiter"
  /\ \E c \in Callers :
       /\ Due(c)
       /\ callers[c].pc = "sleep_retry"
       /\ global_round(c)
  /\ UNCHANGED <<limiter, clock, request_times, lock>>
  /\ UNCHANGED <<comments, dedup_vars, task_vars, batch_vars, result_vars, dispatch_vars, batcher_vars, call_vars>>

\* GlobalRateLimiter.acquire: the fallback sleep ends and acquire returns
GlobalFallback ==
  /\ limiter = "GlobalRateLimiter"
  /\ \E c \in Callers :
       /\ Due(c)
       /\ callers[c].pc = "sleep_fallback"
       /\ admit(c)
  /\ UNCHANGED <<limiter, clock, request_times, zset, lock>>
  /\ UNCHANGED <<comments, dedup_vars, task_vars, batch_vars, result_vars, dispatch_vars, batcher_vars, call_vars>>

\* RateLimiter.acquire from the lock to the sleep or the return: under
\* the lock, the times a second old are dropped; at the limit the caller
\* sleeps, holding the lock, until the oldest time is a second old; else the
\* time is recorded
local_acquire(c, kept) ==
  IF Len(kept) >= MAX_RPS /\ WINDOW - (clock - kept[1]) > 0
  THEN /\ suspend(c, "sleep_limit", clock, WINDOW - (clock - kept[1]))
       /\ request_times' = kept
       /\ lock' = c
  ELSE /\ admit(c)
       /\ request_times' = Append(kept, clock)
       /\ UNCHANGED lock

LocalAcquire ==
  /\ limiter = "RateLimiter"
  /\ lock = 0
  /\ \E c \in Callers :
       /\ callers[c].pc = "call"
       /\ local_acquire(c, SelectSeq(request_times, LAMBDA t : clock - t < WINDOW))
  /\ UNCHANGED <<limiter, clock, zset>>
  /\ UNCHANGED <<comments, dedup_vars, task_vars, batch_vars, result_vars, dispatch_vars, batcher_vars, call_vars>>

\* RateLimiter.acquire: the sleep ends; time.time() is recorded and the
\* lock released
LocalWake ==
  /\ limiter = "RateLimiter"
  /\ \E c \in Callers :
       /\ callers[c].pc = "sleep_limit"
       /\ callers[c].sleep_left = 0
       /\ admit(c)
       /\ request_times' = Append(request_times, clock)
       /\ lock' = 0
  /\ UNCHANGED <<limiter, clock, zset>>
  /\ UNCHANGED <<comments, dedup_vars, task_vars, batch_vars, result_vars, dispatch_vars, batcher_vars, call_vars>>

\* AsyncOpenAIAnalyzer._rate_limit from its start to the sleep or the
\* return: there is no lock; at the limit the caller sleeps until the first
\* recorded time is a second old; else now is recorded
async_rate_limit(c, kept) ==
  IF Len(kept) >= MAX_RPS /\ WINDOW - (clock - kept[1]) > 0
  THEN /\ suspend(c, "sleep_limit", clock, WINDOW - (clock - kept[1]))
       /\ request_times' = kept
  ELSE /\ admit(c)
       /\ request_times' = Append(kept, clock)

AsyncRateLimit ==
  /\ limiter = "AsyncOpenAIAnalyzer"
  /\ \E c \in Callers :
       /\ callers[c].pc = "call"
       /\ async_rate_limit(c, SelectSeq(request_times, LAMBDA t : t > clock - WINDOW))
  /\ UNCHANGED <<limiter, clock, zset, lock>>
  /\ UNCHANGED <<comments, dedup_vars, task_vars, batch_vars, result_vars, dispatch_vars, batcher_vars, call_vars>>

\* AsyncOpenAIAnalyzer._rate_limit: the sleep ends; the now read before the
\* sleep is recorded
AsyncWake ==
  /\ limiter = "AsyncOpenAIAnalyzer"
  /\ \E c \in Callers :
       /\ callers[c].pc = "sleep_limit"
       /\ callers[c].sleep_left = 0
       /\ admit(c)
       /\ request_times' = Append(request_times, callers[c].now)
  /\ UNCHANGED <<limiter, clock, zset, lock>>
  /\ UNCHANGED <<comments, dedup_vars, task_vars, batch_vars, result_vars, dispatch_vars, batcher_vars, call_vars>>

NextLimiter ==
  \/ Tick
  \/ GlobalExecute
  \/ GlobalRedisError
  \/ GlobalRetry
  \/ GlobalFallback
  \/ LocalAcquire
  \/ LocalWake
  \/ AsyncRateLimit
  \/ AsyncWake

SpecLimiter == InitLimiter /\ [][NextLimiter]_vars

\* ------------------------------------ specification: rate limiters, fair
\* The same limiters with time that never stops.  Once the clock has reached
\* MaxTime the origin of time moves instead of the clock: every recorded time
\* is one tenth older, and the times a window old or older, which every
\* limiter drops alike, are kept at the edge of the window.
older(t) == IF t - 1 > clock - WINDOW THEN t - 1 ELSE clock - WINDOW

older_times(times, k) == [i \in 1..k |-> older(times[i])]

TickOn ==
  /\ limiter \in Limiters
  /\ clock = MaxTime
  /\ \A c \in Callers : ~Due(c)
  /\ callers' = [c \in Callers |->
                   [pc |-> callers[c].pc,
                    now |-> IF callers[c].pc = "sleep_limit" THEN older(callers[c].now) ELSE 0,
                    sleep_left |-> IF callers[c].sleep_left > 0
                                   THEN callers[c].sleep_left - 1 ELSE 0]]
  /\ zset' = {older(t) : t \in zset}
  /\ request_times' = older_times(request_times, Len(request_times))
  /\ admitted' = [c \in Callers |->
                    IF admitted[c] = NotAdmitted THEN NotAdmitted ELSE older(admitted[c])]
  /\ UNCHANGED <<limiter, clock, lock>>
  /\ UNCHANGED <<comments, dedup_vars, task_vars, batch_vars, result_vars, dispatch_vars, batcher_vars, call_vars>>

NextLimiterFair ==
  \/ Tick
  \/ TickOn
  \/ GlobalExecute
  \/ GlobalRedisError
  \/ GlobalRetry
  \/ GlobalFallback
  \/ LocalAcquire
  \/ LocalWake
  \/ AsyncRateLimit
  \/ AsyncWake

\* time advances, and the event loop runs every coroutine that is ready; that
\* Redis fails is left to Redis
FairLimiter ==
  /\ WF_vars(Tick)
  /\ WF_vars(TickOn)
  /\ WF_vars(GlobalExecute)
  /\ WF_vars(GlobalRetry)
  /\ WF_vars(GlobalFallback)
  /\ WF_vars(LocalAcquire)
  /\ WF_vars(LocalWake)
  /\ WF_vars(AsyncRateLimit)
  /\ WF_vars(AsyncWake)

SpecLimiterFair == InitLimiter /\ [][NextLimiterFair]_vars /\ FairLimiter


\* ------------------------------------------------ specification: dispatch
\* One batch is dispatched: by the Celery subtask analyze_batch calling
\* OpenAIAnalyzer.analyze_batch (tenacity around every call), or by
\* AsyncOpenAIAnalyzer.analyze_batch (its own loop; analyze_all_batches awaits
\* it and lets what it raises through).  An LLM call ends in one of the kinds
\* below; how it ends is the provider's choice.
Analyzers == {"OpenAIAnalyzer", "AsyncOpenAIAnalyzer"}

\* timeout, connection error, provider rate limit (429), provider 5xx
Transient == {"timeout", "connection_error", "rate_limited", "server_error"}

\* malformed request (400), authentication failure (401)
NonTransient == {"bad_request", "auth_error"}

\* the call answered, and json.loads of the validated text raises
\* JSONDecodeError
Malformed == {"json_decode_error"}

Failures == Transient \cup NonTransient

\* @retry(stop=stop_after_attempt(3), ...)
stop_after_attempt == 3

\* retry_if_exception_type((RateLimitError, APIConnectionError,
\* APITimeoutError))
retry_if_exception_type == {"rate_limited", "connection_error", "timeout"}

\* @celery_app.task(bind=True, max_retries=2, ...) of analyze_batch
batch_max_retries == 2

\* retry_count: int = 3 of AsyncOpenAIAnalyzer.analyze_batch
retry_count == 3

Returned(value) == [how |-> "returned", value |-> value]

Raised(e) == [how |-> "raised", value |-> e]

InitDispatch ==
  /\ comments = <<>>
  /\ dedup_result = NotRun
  /\ efficient_result = NotRun
  /\ TaskIdle
  /\ LimiterIdle
  /\ analyzer \in Analyzers
  /\ dpc = "call"
  /\ task_state = IF analyzer = "OpenAIAnalyzer" THEN "PENDING" ELSE "none"
  /\ task_retries = 0
  /\ attempt = IF analyzer = "OpenAIAnalyzer" THEN 1 ELSE 0
  /\ calls = <<>>
  /\ outcome = NoOutcome
  /\ BatcherIdle
  /\ CallsIdle

\* the except branch of the subtask, were it to end the last execution by
\* returning a failure marker instead of the bare raise
task_except_returning_failed(e) ==
  IF task_retries < batch_max_retries
    THEN /\ task_retries' = task_retries + 1
         /\ task_state' = "RETRY"
         /\ attempt' = 1
         /\ dpc' = "call"
         /\ UNCHANGED outcome
    ELSE /\ task_state' = "SUCCESS"
         /\ outcome' = Returned("Failed")
         /\ dpc' = "done"
         /\ UNCHANGED <<task_retries, attempt>>

\* the except branch of the subtask analyze_batch, reached with exception e:
\* self.retry(countdown=...) while retries < max_retries, which runs the task
\* again from the start, and a bare raise after that
task_except(e) ==
  IF task_retries < batch_max_retries
    THEN /\ task_retries' = task_retries + 1
         /\ task_state' = "RETRY"
         /\ attempt' = 1
         /\ dpc' = "call"
         /\ UNCHANGED outcome
    ELSE /\ task_state' = "FAILURE"
         /\ outcome' = Raised(e)
         /\ dpc' = "done"
         /\ UNCHANGED <<task_retries, attempt>>

\* the call of OpenAIAnalyzer.analyze_batch succeeds: {"comments": ...} is
\* returned through the subtask
AnalyzeBatchReturns ==
  /\ analyzer = "OpenAIAnalyzer"
  /\ dpc = "call"
  /\ calls' = Append(calls, "ok")
  /\ outcome' = Returned("comments")
  /\ task_state' = "SUCCESS"
  /\ dpc' = "done"
  /\ UNCHANGED <<analyzer, task_retries, attempt>>
  /\ UNCHANGED <<comments, dedup_vars, task_vars, batch_vars, result_vars, limiter_vars, batcher_vars, call_vars>>

\* the call raises one of the exceptions tenacity retries: re-raised by the
\* except branch of the analyzer, then tenacity waits and calls again, or,
\* after the third attempt, raises RetryError into the subtask
AnalyzeBatchRetried ==
  /\ analyzer = "OpenAIAnalyzer"
  /\ dpc = "call"
  /\ \E e \in retry_if_exception_type :
       /\ calls' = Append(calls, e)
       /\ IF attempt < stop_after_attempt
            THEN /\ attempt' = attempt + 1
                 /\ UNCHANGED <<dpc, task_state, task_retries, outcome>>
            ELSE task_except("RetryError")
  /\ UNCHANGED analyzer
  /\ UNCHANGED <<comments, dedup_vars, task_vars, batch_vars, result_vars, limiter_vars, batcher_vars, call_vars>>

\* the call raises any other exception, or its answer does not parse: re-raised
\* by the except branches of the analyzer, let through by tenacity, caught by
\* the subtask
AnalyzeBatchRaises ==
  /\ analyzer = "OpenAIAnalyzer"
  /\ dpc = "call"
  /\ \E e \in (Failures \cup Malformed) \ retry_if_exception_type :
       /\ calls' = Append(calls, e)
       /\ task_except(e)
  /\ UNCHANGED analyzer
  /\ UNCHANGED <<comments, dedup_vars, task_vars, batch_vars, result_vars, limiter_vars, batcher_vars, call_vars>>

\* what AsyncOpenAIAnalyzer.analyze_batch does after an attempt that did not
\* return: the next iteration of "for attempt in range(retry_count)", or, the
\* range used up, what follows the loop
async_next_attempt(after_loop) ==
  IF attempt < retry_count - 1
    THEN /\ attempt' = attempt + 1
         /\ UNCHANGED <<dpc, outcome>>
    ELSE /\ outcome' = after_loop
         /\ dpc' = "done"
         /\ UNCHANGED attempt

\* the POST of AsyncOpenAIAnalyzer.analyze_batch answers 200: the parsed
\* results are returned (default results when the answer does not parse)
AsyncBatchReturns ==
  /\ analyzer = "AsyncOpenAIAnalyzer"
  /\ dpc = "call"
  /\ calls' = Append(calls, "ok")
  /\ outcome' = Returned("results")
  /\ dpc' = "done"
  /\ UNCHANGED <<analyzer, task_state, task_retries, attempt>>
  /\ UNCHANGED <<comments, dedup_vars, task_vars, batch_vars, result_vars, limiter_vars, batcher_vars, call_vars>>

\* the POST answers 429: sleep and continue; after the last attempt the loop
\* ends and "return []" is reached
AsyncBatchRateLimited ==
  /\ analyzer = "AsyncOpenAIAnalyzer"
  /\ dpc = "call"
  /\ calls' = Append(calls, "rate_limited")
  /\ async_next_attempt(Returned("empty"))
  /\ UNCHANGED <<analyzer, task_state, task_retries>>
  /\ UNCHANGED <<comments, dedup_vars, task_vars, batch_vars, result_vars, limiter_vars, batcher_vars, call_vars>>

\* the POST times out, fails to connect, or raise_for_status raises for a
\* 4xx/5xx status: "except asyncio.TimeoutError" and "except Exception" both
\* raise on the last attempt and otherwise sleep and go on
AsyncBatchFails ==
  /\ analyzer = "AsyncOpenAIAnalyzer"
  /\ dpc = "call"
  /\ \E e \in Failures \ {"rate_limited"} :
       /\ calls' = Append(calls, e)
       /\ async_next_attempt(Raised(e))
  /\ UNCHANGED <<analyzer, task_state, task_retries>>
  /\ UNCHANGED <<comments, dedup_vars, task_vars, batch_vars, result_vars, limiter_vars, batcher_vars, call_vars>>

NextDispatch ==
  \/ AnalyzeBatchReturns
  \/ AnalyzeBatchRetried
  \/ AnalyzeBatchRaises
  \/ AsyncBatchReturns
  \/ AsyncBatchRateLimited
  \/ AsyncBatchFails

SpecDispatch == InitDispatch /\ [][NextDispatch]_vars


\* ---------------------------------------- specification: parallel batches
\* AsyncOpenAIAnalyzer.analyze_all_batches creates one analyze_batch
\* coroutine per batch and awaits them all; every coroutine runs inside
\* "async with self.semaphore".  A step is what a coroutine does between two
\* awaits.

\* the number of batches handed to analyze_all_batches
NumBatches == 4

\* max_concurrent, the value of asyncio.Semaphore(self.max_concurrent)
MaxConcurrent == 2

\* what the POST of one attempt can end in, other than an answer of 200 or 429
PostErrors == {"timeout", "server_error"}

Coroutine(at, attempt_, acquired, requests, outcome_) ==
  [at |-> at, attempt |-> attempt_, acquired |-> acquired, requests |-> requests,
   outcome |-> outcome_]

InitWorkers ==
  /\ comments = <<>>
  /\ dedup_result = NotRun
  /\ efficient_result = NotRun
  /\ TaskIdle
  /\ LimiterIdle
  /\ DispatchIdle
  /\ BatcherIdle
  /\ ValidatorIdle
  /\ NpsIdle
  /\ NormalizeIdle
  /\ SignalIdle
  /\ CacheIdle
  /\ PoolIdle
  /\ semaphore = MaxConcurrent
  /\ coroutines = [b \in 1..NumBatches |-> Coroutine("created", 0, 0, 0, NoOutcome)]

\* the rest of the state is left alone
workers_only ==
  /\ UNCHANGED <<comments, dedup_vars, task_vars, batch_vars, result_vars>>
  /\ UNCHANGED <<limiter_vars, dispatch_vars, batcher_vars>>
  /\ UNCHANGED <<validator_vars, nps_vars, normalize_vars, signal_vars, cache_vars, pool_vars>>

\* "async with self.semaphore": Semaphore.acquire returns when a slot is free
enter_semaphore(b) ==
  /\ coroutines[b].at = "created"
  /\ semaphore > 0
  /\ semaphore' = semaphore - 1
  /\ coroutines' = [coroutines EXCEPT ![b].at = "rate_limit"]

EnterSemaphore == (\E b \in DOMAIN coroutines : enter_semaphore(b)) /\ workers_only

\* "await self._rate_limit()", once, before the loop over the attempts
rate_limit(b) ==
  /\ coroutines[b].at = "rate_limit"
  /\ coroutines' = [coroutines EXCEPT ![b].at = "post",
                                      ![b].acquired = coroutines[b].acquired + 1]
  /\ UNCHANGED semaphore

RateLimit == (\E b \in DOMAIN coroutines : rate_limit(b)) /\ workers_only

\* the coroutine leaves the "async with" block by return or raise:
\* Semaphore.release
leave_semaphore(b, requests, outcome_) ==
  /\ semaphore' = semaphore + 1
  /\ coroutines' = [coroutines EXCEPT ![b].at = "done", ![b].requests = requests,
                                      ![b].outcome = outcome_]

\* session.post answers 200: "return self._parse_response(...)"
post_returns(b) ==
  /\ coroutines[b].at = "post"
  /\ leave_semaphore(b, coroutines[b].requests + 1, Returned("results"))

PostReturns == (\E b \in DOMAIN coroutines : post_returns(b)) /\ workers_only

\* the backoff, were the slot given back while the coroutine sleeps
back_off_releasing_slot(b) ==
  /\ coroutines' = [coroutines EXCEPT ![b].at = "sleep",
                                      ![b].requests = coroutines[b].requests + 1]
  /\ semaphore' = semaphore + 1

\* the coroutine goes to sleep for 2 ** attempt seconds, inside the block
back_off(b) ==
  /\ coroutines' = [coroutines EXCEPT ![b].at = "sleep",
                                      ![b].requests = coroutines[b].requests + 1]
  /\ UNCHANGED semaphore

\* session.post answers 429: sleep and continue
post_rate_limited(b) ==
  /\ coroutines[b].at = "post"
  /\ back_off(b)

PostRateLimited == (\E b \in DOMAIN coroutines : post_rate_limited(b)) /\ workers_only

\* session.post times out or raise_for_status raises: raise on the last
\* attempt, sleep otherwise
post_fails(b, e) ==
  /\ coroutines[b].at = "post"
  /\ IF coroutines[b].attempt = retry_count - 1
     THEN leave_semaphore(b, coroutines[b].requests + 1, Raised(e))
     ELSE back_off(b)

PostFails == (\E b \in DOMAIN coroutines : \E e \in PostErrors : post_fails(b, e)) /\ workers_only

\* the sleep is over: the next attempt of the loop, or, the range used up,
\* the end of the block and "return []"
wake(b) ==
  /\ coroutines[b].at = "sleep"
  /\ IF coroutines[b].attempt < retry_count - 1
     THEN /\ coroutines' = [coroutines EXCEPT ![b].at = "post",
                                              ![b].attempt = coroutines[b].attempt + 1]
          /\ UNCHANGED semaphore
     ELSE leave_semaphore(b, coroutines[b].requests, Returned("empty"))

Wake == (\E b \in DOMAIN coroutines : wake(b)) /\ workers_only

NextWorkers ==
  \/ EnterSemaphore
  \/ RateLimit
  \/ PostReturns
  \/ PostRateLimited
  \/ PostFails
  \/ Wake

SpecWorkers == InitWorkers /\ [][NextWorkers]_vars

\* ------------------------------------------------- specification: cache
\* ParallelProcessor._async_process with use_cache: the comments are split
\* into cached and uncached, the uncached ones are analysed, and
\* BatchCacheProcessor.merge_results puts the two together.  A result is
\* named by the comment it is the analysis of and by where it comes from.

\* the largest number of comments
MaxCached == 3

\* the longest list analyze_all_batches returns
MaxNew == 4

CachedResult(i) == [of |-> i, source |-> "cache"]

NewResult(i) == [of |-> i, source |-> "new"]

\* the default that merge_results appends for an index without result
MissingResult(i) == [of |-> i, source |-> "missing"]

\* the indices of s in ascending order, as the loop of get_many appends them
ascending(s) ==
  LET RECURSIVE from(_)
      from(i) ==
        IF s \cap {j \in s : j >= i} = {} THEN <<>>
        ELSE IF i \in s THEN <<i>> \o from(i + 1) ELSE from(i + 1)
  IN from(0)

\* CommentCacheManager.get_many: the loaded values of the hits, the indices
\* of the misses
get_many(count_, hits) ==
  [cached_results |-> [i \in hits |-> CachedResult(i)],
   uncached_indices |-> ascending((0..(count_ - 1)) \ hits)]

\* {idx: result for idx, result in zip(uncached_indices, new_results)}
new_results_map(uncached_indices_, new_results_) ==
  LET n == Min(Len(uncached_indices_), Len(new_results_))
  IN [idx \in {uncached_indices_[k] : k \in 1..n} |->
        new_results_[CHOOSE k \in 1..n :
           /\ uncached_indices_[k] = idx
           /\ \A later \in (k + 1)..n : uncached_indices_[later] /= idx]]

\* {**cached_results, **new_results_map}
dict_union(first, second) ==
  [key \in DOMAIN first \cup DOMAIN second |->
     IF key \in DOMAIN second THEN second[key] ELSE first[key]]

\* the loop of merge_results over range(total_count)
merge_from(all_results, total_count) ==
  [k \in 1..total_count |->
     IF (k - 1) \in DOMAIN all_results THEN all_results[k - 1] ELSE MissingResult(k - 1)]

\* BatchCacheProcessor.merge_results
merge_results(cached_results_, new_results_, uncached_indices_) ==
  merge_from(dict_union(cached_results_, new_results_map(uncached_indices_, new_results_)),
             Cardinality(DOMAIN cached_results_) + Len(new_results_))

\* the lists analyze_all_batches can return for the uncached comments: the
\* results of the batches in the order of completion, none for a batch that
\* gave up after answers of 429, more than asked for when a response holds
\* more
NewResultLists(uncached) ==
  UNION { [1..n -> {NewResult(i) : i \in uncached}] : n \in 0..MaxNew }

InitCache ==
  /\ comments = <<>>
  /\ dedup_result = NotRun
  /\ efficient_result = NotRun
  /\ TaskIdle
  /\ LimiterIdle
  /\ DispatchIdle
  /\ BatcherIdle
  /\ ValidatorIdle
  /\ NpsIdle
  /\ NormalizeIdle
  /\ SignalIdle
  /\ WorkersIdle
  /\ PoolIdle
  /\ comment_count \in 0..MaxCached
  /\ cache_hits \in SUBSET (0..(comment_count - 1))
  /\ cached_results = NotRun
  /\ uncached_indices = <<>>
  /\ new_results = NotRun
  /\ merge_result = NotRun

\* the rest of the state is left alone
cache_only ==
  /\ UNCHANGED <<comments, dedup_vars, task_vars, batch_vars, result_vars>>
  /\ UNCHANGED <<limiter_vars, dispatch_vars, batcher_vars>>
  /\ UNCHANGED <<validator_vars, nps_vars, normalize_vars, signal_vars, worker_vars, pool_vars>>

\* step 1 of _async_process: split_cached_uncached
SplitCachedUncached ==
  /\ cached_results = NotRun
  /\ cached_results' = [run |-> TRUE, dict |-> get_many(comment_count, cache_hits).cached_results]
  /\ uncached_indices' = get_many(comment_count, cache_hits).uncached_indices
  /\ UNCHANGED <<comment_count, cache_hits, new_results, merge_result>>
  /\ cache_only

\* step 2: the uncached comments are analysed; without uncached comments
\* new_results stays []
AnalyzeUncached ==
  /\ cached_results /= NotRun
  /\ new_results = NotRun
  /\ \E returned \in NewResultLists({uncached_indices[k] : k \in DOMAIN uncached_indices}) :
       /\ uncached_indices = <<>> => returned = <<>>
       /\ new_results' = [run |-> TRUE, list |-> returned]
  /\ UNCHANGED <<comment_count, cache_hits, cached_results, uncached_indices, merge_result>>
  /\ cache_only

\* step 3: merge_results
MergeResults ==
  /\ new_results /= NotRun
  /\ merge_result = NotRun
  /\ merge_result' = [run |-> TRUE,
                      results |-> merge_results(cached_results.dict, new_results.list,
                                                uncached_indices)]
  /\ UNCHANGED <<comment_count, cache_hits, cached_results, uncached_indices, new_results>>
  /\ cache_only

NextCache ==
  \/ SplitCachedUncached
  \/ AnalyzeUncached
  \/ MergeResults

SpecCache == InitCache /\ [][NextCache]_vars

\* ---------------------------------------------- specification: worker pool
\* Several analyze_feedback tasks on one Celery worker.  analyze_feedback and
\* analyze_batch are both routed to the queue "analysis" (celery_app.py
\* 67-71); the worker has worker_concurrency processes, each running one task
\* at a time and taking the oldest message when it is free
\* (worker_prefetch_multiplier=1, task_acks_late).  The LLM always answers:
\* a subtask that runs succeeds.

\* worker_concurrency
PoolSize == 2

\* the analyze_feedback tasks sent to the queue
NumParents == 2

\* the batches that one execution of analyze_feedback submits
GroupSize == 1

Idle == [kind |-> "idle", parent |-> 0, run |-> 0]

ParentMessage(p, run) == [kind |-> "analyze_feedback", parent |-> p, run |-> run]

BatchMessage(p, run) == [kind |-> "analyze_batch", parent |-> p, run |-> run]

Parent(at, run, elapsed_, done) == [at |-> at, run |-> run, elapsed |-> elapsed_, done |-> done]

InitPool ==
  /\ comments = <<>>
  /\ dedup_result = NotRun
  /\ efficient_result = NotRun
  /\ TaskIdle
  /\ LimiterIdle
  /\ DispatchIdle
  /\ BatcherIdle
  /\ ValidatorIdle
  /\ NpsIdle
  /\ NormalizeIdle
  /\ SignalIdle
  /\ WorkersIdle
  /\ CacheIdle
  /\ queue = [p \in 1..NumParents |-> ParentMessage(p, 0)]
  /\ pool = [w \in 1..PoolSize |-> Idle]
  /\ parents = [p \in 1..NumParents |-> Parent("queued", 0, 0, 0)]

\* the rest of the state is left alone
pool_only ==
  /\ UNCHANGED <<comments, dedup_vars, task_vars, batch_vars, result_vars>>
  /\ UNCHANGED <<limiter_vars, dispatch_vars, batcher_vars>>
  /\ UNCHANGED <<validator_vars, nps_vars, normalize_vars, signal_vars, worker_vars, cache_vars>>

\* a free process takes the oldest message, an analyze_feedback: the task
\* runs up to its polling loop; group(...).apply_async() sends its batches
start_parent(w) ==
  /\ pool[w] = Idle
  /\ queue /= <<>>
  /\ Head(queue).kind = "analyze_feedback"
  /\ pool' = [pool EXCEPT ![w] = Head(queue)]
  /\ queue' = Tail(queue) \o [b \in 1..GroupSize |->
                                BatchMessage(Head(queue).parent, Head(queue).run)]
  /\ parents' = [parents EXCEPT ![Head(queue).parent] = Parent("polling", Head(queue).run, 0, 0)]

StartParent == (\E w \in DOMAIN pool : start_parent(w)) /\ pool_only

\* a free process takes the oldest message, an analyze_batch
start_batch(w) ==
  /\ pool[w] = Idle
  /\ queue /= <<>>
  /\ Head(queue).kind = "analyze_batch"
  /\ pool' = [pool EXCEPT ![w] = Head(queue)]
  /\ queue' = Tail(queue)
  /\ UNCHANGED parents

StartBatch == (\E w \in DOMAIN pool : start_batch(w)) /\ pool_only

\* the parent that polls for the subtask of the message
polled_by(message) ==
  {p \in DOMAIN parents : /\ p = message.parent
                          /\ parents[p].at = "polling"
                          /\ parents[p].run = message.run}

\* analyze_batch returns its result: the process is free, and the subtask is
\* ready for the execution that submitted it, if that still polls
batch_returns(w) ==
  /\ pool[w].kind = "analyze_batch"
  /\ pool' = [pool EXCEPT ![w] = Idle]
  /\ parents' = [p \in DOMAIN parents |->
                   IF p \in polled_by(pool[w])
                   THEN [parents[p] EXCEPT !.done = parents[p].done + 1]
                   ELSE parents[p]]
  /\ UNCHANGED queue

BatchReturns == (\E w \in DOMAIN pool : batch_returns(w)) /\ pool_only

\* one round of the polling loop of a parent whose group is not ready
poll_sleep(p) ==
  /\ parents[p].at = "polling"
  /\ parents[p].done < GroupSize
  /\ parents[p].elapsed < max_wait
  /\ parents' = [parents EXCEPT ![p].elapsed = parents[p].elapsed + poll_interval]
  /\ UNCHANGED <<queue, pool>>

PollSleep == (\E p \in DOMAIN parents : poll_sleep(p)) /\ pool_only

\* the execution ends with an exception and leaves its process;
\* _handle_task_error has the task run again while retries are left:
\* self.retry() sends the task to the queue
end_run(p) ==
  /\ pool' = [w \in DOMAIN pool |->
                IF pool[w] = ParentMessage(p, parents[p].run) THEN Idle ELSE pool[w]]
  /\ IF parents[p].run < max_retries
     THEN /\ queue' = Append(queue, ParentMessage(p, parents[p].run + 1))
          /\ parents' = [parents EXCEPT ![p] = Parent("queued", parents[p].run + 1, 0, 0)]
     ELSE /\ parents' = [parents EXCEPT ![p].at = "failed"]
          /\ UNCHANGED queue

\* the group is ready: the results are collected, and merge_batch_results
\* raises the AttributeError of calculate_nps_metrics
parent_collects(p) ==
  /\ parents[p].at = "polling"
  /\ parents[p].done = GroupSize
  /\ end_run(p)

ParentCollects == (\E p \in DOMAIN parents : parent_collects(p)) /\ pool_only

\* max_wait is over and the group is not ready: TimeoutError
parent_times_out(p) ==
  /\ parents[p].at = "polling"
  /\ parents[p].done < GroupSize
  /\ parents[p].elapsed >= max_wait
  /\ end_run(p)

ParentTimesOut == (\E p \in DOMAIN parents : parent_times_out(p)) /\ pool_only

NextPool ==
  \/ StartParent
  \/ StartBatch
  \/ BatchReturns
  \/ PollSleep
  \/ ParentCollects
  \/ ParentTimesOut

SpecPool == InitPool /\ [][NextPool]_vars

\* ------------------------------------------------- specification: batchers
\* One of the two batchers is run on a comment list: utils.optimize_batch_size
\* (what OpenAIAnalyzer.optimize_batch_size calls) or
\* AnalyzerWrapper.optimize_batch_size (what openai_analyzer is when
\* ENABLE_PARALLEL_PROCESSING is set).

\* the longest comment list handed to a batcher
MaxBatched == 3

\* a comment long enough to be truncated, and to exceed the default budget
\* on its own when it is not
T_huge == [i \in 1..4004 |-> "a"]

BatchedPool == { T_ok, T_caro, T_long, T_huge }

BatchedLists(n) == UNION { [1..k -> BatchedPool] : k \in 0..n }

\* the max_tokens_per_batch a batcher is called with: two that leave a few
\* tokens after the reserved ones, and the default
Budgets == { reserved_tokens + 3, reserved_tokens + 5, max_tokens_per_batch }

\* settings.MAX_BATCH_SIZE or settings.BATCH_SIZE_OPTIMAL, scaled
BatchSizes == 1..MaxBatched

BatchConfigs ==
  [batcher : {"optimize_batch_size"}, max_tokens_per_batch : Budgets, batch_size : BatchSizes]
  \cup [batcher : {"AnalyzerWrapper"}, max_tokens_per_batch : {max_tokens_per_batch}, batch_size : BatchSizes]

InitBatcher ==
  /\ comments \in BatchedLists(MaxBatched)
  /\ dedup_result = NotRun
  /\ efficient_result = NotRun
  /\ TaskIdle
  /\ LimiterIdle
  /\ DispatchIdle
  /\ batch_config \in BatchConfigs
  /\ batcher_result = NotRun
  /\ CallsIdle

Batched(batches_) == [run |-> TRUE, batches |-> batches_]

\* optimize_batch_size(comments, max_tokens_per_batch)
OptimizeBatchSize ==
  /\ batch_config.batcher = "optimize_batch_size"
  /\ batcher_result = NotRun
  /\ batcher_result' =
       Batched(optimize_batch_size_of(comments, batch_config.max_tokens_per_batch,
                                      batch_config.batch_size))
  /\ UNCHANGED <<comments, dedup_vars, task_vars, batch_vars, result_vars>>
  /\ UNCHANGED <<limiter_vars, dispatch_vars, batch_config, call_vars>>

\* AnalyzerWrapper.optimize_batch_size(comments)
WrapperOptimizeBatchSize ==
  /\ batch_config.batcher = "AnalyzerWrapper"
  /\ batcher_result = NotRun
  /\ batcher_result' =
       Batched(wrapper_optimize_batch_size(comments, batch_config.batch_size))
  /\ UNCHANGED <<comments, dedup_vars, task_vars, batch_vars, result_vars>>
  /\ UNCHANGED <<limiter_vars, dispatch_vars, batch_config, call_vars>>

NextBatcher == OptimizeBatchSize \/ WrapperOptimizeBatchSize

SpecBatcher == InitBatcher /\ [][NextBatcher]_vars


\* ------------------------------------------------ specification: validator
\* validate_and_repair is run on a raw response text: a response cut at any
\* length, or a text that is not the expected object.

\* the largest expected_count
MaxExpected == 3

\* a response as json.dumps(..., separators=(",", ":")) writes it
R_compact == <<"{","\"","r","\"",":","[","{","\"","c","\"",":","0",".","5",",","\"","p","\"",":","\"","p","r","e","c","i","o","\"","}",",","{","\"","c","\"",":","0",".","8",",","\"","p","\"",":","\"","s","e","r","v","i","c","i","o","\"","}",",","{","\"","e","\"",":","[","1",",","0","]",",","\"","c","\"",":","1","}","]","}">>

\* a response with white space after the separators
R_spaced == <<"{","\"","r","\"",":"," ","[","{","\"","c","\"",":"," ","0",".","5","}",","," ","{","\"","c","\"",":"," ","0",".","8",","," ","\"","p","\"",":"," ","\"","s","e","r","\"","}","]","}">>

\* a response with objects that parse and one that does not
R_full == <<"{","\"","r","\"",":","[","{","\"","e","\"",":","[","1",",","0",",","0",",","1",",","0",",","0",",","0","]",",","\"","c","\"",":","0",".","1",",","\"","p","\"",":","\"","o","k","\"","}",",","{","\"","e","\"",":","[","0",",","1","]",",","\"","c","\"",":","0",".","5","}",",","{","\"","e","\"",":","[","0",",","1",",","1",",","0",",","1",",","0",",","0","]","}","]","}">>

CompactResponses == { R_compact, R_full }

Responses == CompactResponses \cup { R_spaced }

\* every response cut after n characters
Truncations == UNION { { SubSeq(r, 1, n) : n \in 0..Len(r) } : r \in Responses }

\* empty, not JSON, JSON that is not an object, a result field that is not
\* an array
OtherTexts ==
  { <<>>,
    <<"5">>,
    <<"n","u","l","l">>,
    <<"\"","r","\"">>,
    <<"[","\"","r","\"","]">>,
    <<"[","]">>,
    <<"{","\"","r","\"",":","5","}">>,
    <<"{","\"","r","\"",":","n","u","l","l","}">>,
    <<"{","\"","x","\"",":","1","}">>,
    <<"a","b","c">>,
    <<"{","\"","r","\"",":","\"","a","b","\"","}">>,
    <<"{","\"","r","\"",":","{","\"","a","\"",":","1","}","}">> }

InitValidator ==
  /\ comments = <<>>
  /\ dedup_result = NotRun
  /\ efficient_result = NotRun
  /\ TaskIdle
  /\ LimiterIdle
  /\ DispatchIdle
  /\ BatcherIdle
  /\ response_text \in Truncations \cup OtherTexts
  /\ expected_count \in 0..MaxExpected
  /\ validation = NotRun
  /\ analysis = NotRun
  /\ NpsIdle
  /\ NormalizeIdle
  /\ LaterIdle

ValidateAndRepair ==
  /\ validation = NotRun
  /\ validation' = [run |-> TRUE, result |-> validate_and_repair(response_text, expected_count)]
  /\ UNCHANGED <<response_text, expected_count, analysis, nps_vars, normalize_vars, later_vars>>
  /\ UNCHANGED <<comments, dedup_vars, task_vars, batch_vars, result_vars>>
  /\ UNCHANGED <<limiter_vars, dispatch_vars, batcher_vars>>

\* analyze_batch receives the text as the content of the API's response
AnalyzeBatchResponse ==
  /\ analysis = NotRun
  /\ analysis' = [run |-> TRUE, result |-> analyze_batch_response(response_text, expected_count)]
  /\ UNCHANGED <<response_text, expected_count, validation, nps_vars, normalize_vars, later_vars>>
  /\ UNCHANGED <<comments, dedup_vars, task_vars, batch_vars, result_vars>>
  /\ UNCHANGED <<limiter_vars, dispatch_vars, batcher_vars>>

NextValidator == ValidateAndRepair \/ AnalyzeBatchResponse

SpecValidator == InitValidator /\ [][NextValidator]_vars

\* ---------------------------------------------- specification: NPS calculator
\* the largest count of a category
MaxCount == 4

Counts == [promoter : 0..MaxCount, passive : 0..MaxCount, detractor : 0..MaxCount]

InitNps ==
  /\ comments = <<>>
  /\ dedup_result = NotRun
  /\ efficient_result = NotRun
  /\ TaskIdle
  /\ LimiterIdle
  /\ DispatchIdle
  /\ BatcherIdle
  /\ ValidatorIdle
  /\ nps_counts \in Counts
  /\ method \in NPSMethods \cup {None}
  /\ nps_score = NotRun
  /\ nps_metrics = NotRun
  /\ NormalizeIdle
  /\ LaterIdle

CalculateNpsScore ==
  /\ nps_score = NotRun
  /\ nps_score' = [run |-> TRUE,
                   result |-> calculate_nps_score(nps_counts.promoter, nps_counts.passive,
                                                  nps_counts.detractor, method)]
  /\ UNCHANGED <<nps_counts, method, nps_metrics, validator_vars, normalize_vars, later_vars>>
  /\ UNCHANGED <<comments, dedup_vars, task_vars, batch_vars, result_vars>>
  /\ UNCHANGED <<limiter_vars, dispatch_vars, batcher_vars>>

CalculateNpsMetricsModular ==
  /\ nps_metrics = NotRun
  /\ nps_metrics' = [run |-> TRUE,
                     result |-> calculate_nps_metrics_modular(nps_counts.promoter,
                                  nps_counts.passive, nps_counts.detractor)]
  /\ UNCHANGED <<nps_counts, method, nps_score, validator_vars, normalize_vars, later_vars>>
  /\ UNCHANGED <<comments, dedup_vars, task_vars, batch_vars, result_vars>>
  /\ UNCHANGED <<limiter_vars, dispatch_vars, batcher_vars>>

NextNps == CalculateNpsScore \/ CalculateNpsMetricsModular

SpecNps == InitNps /\ [][NextNps]_vars

\* ------------------------------------------- specification: normalisation
\* the longest text made of the characters below
MaxLen == 4

\* a letter, an accented capital, white space and punctuation
NormalizeChars == { "a", "E_acute", " ", "." }

\* the texts of at most MaxLen of these characters
ShortTexts == UNION { [1..k -> NormalizeChars] : k \in 0..MaxLen }

T_muy_muy_bien == <<"M","u","y"," ","m","u","y"," ","b","i","e","n">>

NormalizeTexts == ShortTexts \cup Pool \cup { T_muy_muy_bien }

Normalizers == { "_normalize_text", "_normalize_comment" }

normalize_with(normalizer_, text) ==
  IF normalizer_ = "_normalize_text" THEN _normalize_text(text) ELSE _normalize_comment(text)

InitNormalize ==
  /\ comments = <<>>
  /\ dedup_result = NotRun
  /\ efficient_result = NotRun
  /\ TaskIdle
  /\ LimiterIdle
  /\ DispatchIdle
  /\ BatcherIdle
  /\ ValidatorIdle
  /\ NpsIdle
  /\ LaterIdle
  /\ normalizer \in Normalizers
  /\ raw_text \in NormalizeTexts
  /\ normalized = NotRun
  /\ renormalized = NotRun

\* the normalisation of the text
Normalize ==
  /\ normalized = NotRun
  /\ normalized' = [run |-> TRUE, text |-> normalize_with(normalizer, raw_text)]
  /\ UNCHANGED <<normalizer, raw_text, renormalized, validator_vars, nps_vars, later_vars>>
  /\ UNCHANGED <<comments, dedup_vars, task_vars, batch_vars, result_vars>>
  /\ UNCHANGED <<limiter_vars, dispatch_vars, batcher_vars>>

\* the normalisation of what the normalisation returned
NormalizeAgain ==
  /\ normalized /= NotRun
  /\ renormalized = NotRun
  /\ renormalized' = [run |-> TRUE, text |-> normalize_with(normalizer, normalized.text)]
  /\ UNCHANGED <<normalizer, raw_text, normalized, validator_vars, nps_vars, later_vars>>
  /\ UNCHANGED <<comments, dedup_vars, task_vars, batch_vars, result_vars>>
  /\ UNCHANGED <<limiter_vars, dispatch_vars, batcher_vars>>

NextNormalize == Normalize \/ NormalizeAgain

SpecNormalize == InitNormalize /\ [][NextNormalize]_vars

\* ------------------------------------------------ properties: deduplication
\* number of positions of the sequence s that hold x
occurrences(s, x) == Cardinality({k \in 1..Len(s) : s[k] = x})

Indices == 0..(Len(comments) - 1)

C4_DuplicatesPointToRepresentatives ==
  /\ dedup_result /= NotRun =>
       \A i \in DOMAIN dedup_result.duplicate_map :
         /\ occurrences(dedup_result.unique_indices, dedup_result.duplicate_map[i]) = 1
         /\ dedup_result.duplicate_map[i] \notin DOMAIN dedup_result.duplicate_map
  /\ efficient_result /= NotRun =>
       \A i \in DOMAIN efficient_result.duplicate_map :
         /\ occurrences(efficient_result.filtered_indices,
                        efficient_result.duplicate_map[i]) = 1
         /\ efficient_result.duplicate_map[i] \notin DOMAIN efficient_result.duplicate_map

\* ---------------------------------------------- properties: analyze_feedback
\* the rows merge_batch_results expanded
Rows == merged.rows

\* merge_batch_results has run in this execution of the task
Merged == merged /= NotRun

\* the representative indices: those whose comment was sent to the API
Representatives ==
  {dedup_info.filtered_indices[k] : k \in 1..Len(dedup_info.filtered_indices)}

\* the row is the neutral default of create_default_result
IsDefaultRow(row) == "is_trivial" \in DOMAIN row

\* C1: in the expanded rows every representative comment carries the
\* analysis that was produced for that same comment, or the neutral default
\* when its batch failed or returned no result for it; it never carries the
\* analysis of a different comment
C1_RepresentativeKeepsOwnAnalysis ==
  Merged =>
    \A k \in 1..Len(Rows) :
      (k - 1) \in Representatives =>
        \/ IsDefaultRow(Rows[k])
        \/ Rows[k].analysis_of = k - 1

\* C2: whatever the deduplication, the trivial filter and the batches did,
\* the expanded result has one row per original comment, the row at
\* position i carrying index i
C2_OneRowPerOriginalIndex ==
  Merged =>
    /\ Len(Rows) = Len(dedup_info.all_comments)
    /\ \A k \in 1..Len(Rows) : Rows[k].index = k - 1

\* a run that merged the results for a file with a duplicate whose original
\* got an API result, after a batch returned more results than it had
\* comments
C2_Witness ==
  /\ Merged
  /\ DOMAIN dedup_info.duplicate_map /= {}
  /\ \E k \in 1..Len(Rows) : ~IsDefaultRow(Rows[k]) /\ Rows[k].is_duplicate
  /\ \E b \in 1..Len(batches) :
       /\ batch_results[b].state = "SUCCESS"
       /\ Len(batch_results[b].result.comments) > Len(batches[b])

\* C6: the list of batch results handed to merge_batch_results is in
\* submission order: its k-th entry is the result of the k-th submitted batch
C6_OutcomesInSubmissionOrder ==
  Merged =>
    \A k \in 1..Len(batch_analysis_results) :
      batch_analysis_results[k].of_batch = k - 1

\* the polling loop has used up max_wait and a batch has not reported
TimedOut == pc = "poll" /\ elapsed >= max_wait /\ ~ready(batch_results)

\* C7: when the overall timeout elapses before every batch has reported,
\* the run goes on with the results that are available and does not fail
C7_TimeoutProceedsWithPartialResults ==
  [][TimedOut => (status' /= "failed" /\ pc' \notin {"start", "failed"})]_vars

\* ------------------------------------------------ properties: unusable input
\* no row of the file is left after normalize_feedback_data
NoUsableComments == normalize_feedback_data(comments) = <<>>

\* C17: for an input with no usable comments (an empty comment set, or every
\* row rejected by the normalisation) the task does not fail: it is never
\* marked failed and it ends with an empty report stored
C17_NoUsableCommentsGivesEmptyReport ==
  NoUsableComments =>
    /\ status /= "failed"
    /\ pc /= "failed"
    /\ pc = "done" => (final_results /= NotRun /\ final_results.rows = <<>>)

\* ------------------------------------------------- properties: rate limiters
\* the callers admitted in the second that ends at time t
AdmittedInWindow(t) ==
  {c \in Callers : admitted[c] /= NotAdmitted /\ admitted[c] > t - WINDOW /\ admitted[c] <= t}

\* C5: whatever the number of concurrent callers, no more than max_rps
\* acquire() calls are admitted within any trailing one-second window
C5_AtMostRAdmittedPerSecond ==
  \A t \in 0..MaxTime : Cardinality(AdmittedInWindow(t)) <= MAX_RPS

\* ---------------------------------------------------------------- dispatch
\* the dispatch is over and no LLM call made for the batch succeeded
Exhausted ==
  /\ dpc = "done"
  /\ calls /= <<>>
  /\ \A i \in DOMAIN calls : calls[i] /= "ok"

C9_TransientFailuresAtMostThreeCalls ==
  (\A i \in DOMAIN calls : calls[i] \in Transient) => Len(calls) <= 3

\* C10: an LLM call that failed with a non-transient error (malformed
\* request, authentication failure) is the last call made for the batch.
C10_NonTransientFailureIsLastCall ==
  \A i \in DOMAIN calls : calls[i] \in NonTransient => i = Len(calls)

\* C11: no starvation: with time advancing and every ready coroutine run,
\* every caller of acquire() is eventually admitted
C11_EveryCallerEventuallyAdmitted ==
  <>(\A c \in Callers : admitted[c] /= NotAdmitted)

\* ----------------------------------------------------------------- batchers
RECURSIVE batch_tokens(_, _)
\* the summed token estimates of the first k comments of a batch
batch_tokens(batch, k) ==
  IF k = 0 THEN 0 ELSE count_tokens(batch[k]) + batch_tokens(batch, k - 1)

\* a batch within the item ceiling and the token ceiling, or one comment
\* that exceeds the token ceiling on its own
within_budget(batch, max_items, max_tokens) ==
  \/ Len(batch) <= max_items /\ batch_tokens(batch, Len(batch)) <= max_tokens
  \/ Len(batch) = 1 /\ count_tokens(batch[1]) > max_tokens

\* C12: every batch a batcher produced has at most batch_size comments and at
\* most max_tokens_per_batch estimated tokens, or is one comment whose own
\* estimate exceeds the token budget
C12_BatchesWithinBudget ==
  batcher_result /= NotRun =>
    \A b \in DOMAIN batcher_result.batches :
      within_budget(batcher_result.batches[b], batch_config.batch_size,
                    batch_config.max_tokens_per_batch)

RECURSIVE concatenated(_, _)
\* the first k batches, concatenated
concatenated(batches_, k) ==
  IF k = 0 THEN <<>> ELSE concatenated(batches_, k - 1) \o batches_[k]

\* C13 as stated: the batches, concatenated in order, are the input comments
C13_BatchesConcatenateToInput ==
  batcher_result /= NotRun =>
    concatenated(batcher_result.batches, Len(batcher_result.batches)) = comments

\* the comments as a batcher passes them on
passed_on(batcher_) ==
  IF batcher_ = "optimize_batch_size"
  THEN [k \in 1..Len(comments) |-> prefix(comments[k], MAX_COMMENT_CHARS)]
  ELSE comments

\* C13 as amended: the batches, concatenated in order, are the input
\* comments in input order, each exactly once and in one batch, where
\* optimize_batch_size passes on the first 1500 characters of a comment that
\* is longer; no batch is empty
C13_BatchesConcatenateToTruncatedInput ==
  batcher_result /= NotRun =>
    /\ concatenated(batcher_result.batches, Len(batcher_result.batches))
         = passed_on(batch_config.batcher)
    /\ \A b \in DOMAIN batcher_result.batches : batcher_result.batches[b] /= <<>>

\* optimize_batch_size has batched a list that holds a comment over the token
\* budget and a comment over 1500 characters
C13_Witness ==
  /\ batcher_result /= NotRun
  /\ batch_config.batcher = "optimize_batch_size"
  /\ Len(batcher_result.batches) >= 2
  /\ \E k \in DOMAIN comments : Len(comments[k]) > MAX_COMMENT_CHARS
  /\ \E k \in DOMAIN comments :
       count_tokens(prefix(comments[k], MAX_COMMENT_CHARS))
         > available_tokens(batch_config.max_tokens_per_batch)

\* ------------------------------------------------------ properties: validator
\* C14: validate_and_repair never raises: whatever the raw response text and
\* the expected count, it returns a triple (text, validity flag, issues).
C14_ValidateAndRepairNeverRaises ==
  validation /= NotRun => ~validation.result.raised

\* the i-th character of the text is outside every string
outside_string(text, i) ==
  text[i] /= "\"" /\ count_upto(text, "\"", i - 1) % 2 = 0

\* how deep the brackets are nested after the first n characters
nesting(text, n) ==
  Cardinality({i \in 1..n : outside_string(text, i) /\ text[i] \in {"{", "["}})
  - Cardinality({i \in 1..n : outside_string(text, i) /\ text[i] \in {"}", "]"}})

\* the number of complete elements of the result array
complete_elements(text) ==
  Cardinality({i \in 1..Len(text) :
    outside_string(text, i) /\ text[i] = "}" /\ nesting(text, i) = 2})

\* the text ends inside an element of the result array, after at least one
\* complete element
truncated_in_later_element(text) ==
  nesting(text, Len(text)) >= 3 /\ complete_elements(text) >= 1

is_truncation_of(text, r) ==
  Len(text) < Len(r) /\ text = SubSeq(r, 1, Len(text))

first_element(r) == get_r(json_loads(r).val).items[1]

holds_first(data, first) ==
  /\ data.t = "object"
  /\ contains_r(data)
  /\ get_r(data).t = "array"
  /\ Len(get_r(data).items) >= 1
  /\ get_r(data).items[1] = first

\* the result is parseable text with the first element, not valid, with issues
repaired_with(result, first) ==
  /\ ~result.raised
  /\ json_loads(result.text).ok
  /\ holds_first(json_loads(result.text).val, first)
  /\ ~result.is_valid
  /\ result.issues /= <<>>

\* C15: for a response truncated inside an array element that follows at
\* least one complete element, validate_and_repair returns text that parses
\* as JSON and whose result array holds at least the first complete element,
\* with the validity flag False and a non-empty issue list.
C15_TruncatedResponseRepaired ==
  \A r \in Responses :
    ( /\ validation /= NotRun
      /\ is_truncation_of(response_text, r)
      /\ truncated_in_later_element(response_text) )
    => repaired_with(validation.result, first_element(r))

\* the same holds of the response written without white space, whose
\* elements are separated by the three characters the recovery looks for
CompactTruncatedResponseRepaired ==
  \A r \in CompactResponses :
    ( /\ validation /= NotRun
      /\ is_truncation_of(response_text, r)
      /\ truncated_in_later_element(response_text) )
    => repaired_with(validation.result, first_element(r))

\* C16: malformed LLM output never makes a batch dispatch raise or lose the
\* batch: for any raw response text, also one the validator cannot repair,
\* analyze_batch returns a result in which every item that could not be
\* parsed is the neutral default (churn risk 0.5, no pain points, passive).
C16_MalformedOutputNeverRaises ==
  analysis /= NotRun =>
    /\ ~analysis.result.raised
    /\ \A i \in DOMAIN analysis.result.comments :
         ~analysis.result.comments[i].parsed =>
           analysis.result.comments[i] = _create_default_result(i - 1)

\* ------------------------------------------------------------ properties: NPS
total_responses == nps_counts.promoter + nps_counts.passive + nps_counts.detractor

\* 100 * (promoters - detractors) / total
standard_score ==
  Fraction(100 * (nps_counts.promoter - nps_counts.detractor), total_responses)

\* (standard / 100 + 1) * 50
shifted_score == fraction_times(fraction_plus(fraction_over(standard_score, 100), 1), 50)

score_is(result, f) == ~result.raised /\ fraction_equal(result.score, f)

\* C18: for non-negative counts with total > 0 the standard score is
\* 100 * (promoters - detractors) / total and the shifted score is
\* (standard / 100 + 1) * 50, which lies in [0, 100]; for all-zero counts the
\* standard score is 0 and the shifted score is 50.
C18_NpsFormula ==
  /\ (nps_score /= NotRun /\ method = "standard") =>
       IF total_responses > 0 THEN score_is(nps_score.result, standard_score)
       ELSE score_is(nps_score.result, Fraction(0, 1))
  /\ (nps_score /= NotRun /\ method = "shifted") =>
       IF total_responses > 0
       THEN /\ score_is(nps_score.result, shifted_score)
            /\ fraction_at_most(Fraction(0, 1), nps_score.result.score)
            /\ fraction_at_most(nps_score.result.score, Fraction(100, 1))
       ELSE score_is(nps_score.result, Fraction(50, 1))

\* the same for the counts that are not all zero
NpsFormulaForResponses == total_responses > 0 => C18_NpsFormula

\* --------------------------------------------------- properties: normalisation
\* C19: text normalisation is idempotent: normalising a normalised text
\* returns it unchanged
C19_NormalizationIdempotent ==
  renormalized /= NotRun => renormalized.text = normalized.text

\* the same for one of the two normalisations
NormalizeTextIdempotent ==
  normalizer = "_normalize_text" => C19_NormalizationIdempotent

NormalizeCommentIdempotent ==
  normalizer = "_normalize_comment" => C19_NormalizationIdempotent

\* ---------------------------------------------------- properties: scenario
\* the number of ratings of the category
rated(ratings, category) ==
  Cardinality({k \in DOMAIN ratings : calculate_nps_category(ratings[k]) = category})

\* every subtask succeeded with one result per comment of its batch
AllAnalysed ==
  \A b \in 1..Len(batch_results) :
    /\ batch_results[b].state = "SUCCESS"
    /\ Len(batch_results[b].result.comments) = Len(batches[b])

\* the preparation kept the four rows, found the second to be a duplicate of
\* the first, left the one-letter comment out of the analysis as trivial and
\* sent the complaint to it
ScenarioPrepared ==
  /\ Len(dedup_info.all_comments) = 4
  /\ DOMAIN dedup_info.duplicate_map = {1}
  /\ dedup_info.duplicate_map[1] = 0
  /\ \A k \in DOMAIN dedup_info.filtered_indices :
       dedup_info.all_comments[dedup_info.filtered_indices[k] + 1] /= T_x
  /\ \E k \in DOMAIN dedup_info.filtered_indices :
       dedup_info.all_comments[dedup_info.filtered_indices[k] + 1] = T_caro

\* the report has four rows, two promoters, and the analysis of the complaint
ScenarioMerged ==
  /\ Len(Rows) = 4
  /\ ~merged.nps.raised
  /\ merged.nps.promoters = rated(ScenarioRatings, "promoter")
  /\ AllAnalysed =>
       \E k \in 1..Len(Rows) :
         /\ Rows[k].original_text = T_caro
         /\ ~IsDefaultRow(Rows[k])
         /\ Rows[k].analysis_of = k - 1

\* C20: for the rows ("Excelente!", 9), ("Excelente!", 9), ("x", 1),
\* ("Muy caro y lento", 2) the pipeline has one representative and one
\* duplicate for the two "Excelente!" rows, filters "x" as trivial, sends
\* "Muy caro y lento" to the analysis, and produces a final report with 4
\* rows, 2 promoters and the analysis of "Muy caro y lento"; the task does not
\* fail
C20_ScenarioReport ==
  comments = ScenarioComments =>
    /\ status /= "failed"
    /\ dedup_info /= NotRun => ScenarioPrepared
    /\ Merged => ScenarioMerged

\* the same without the row count: what the preparation does with the rows
\* that the normalisation keeps
ScenarioDeduplicated ==
  (comments = ScenarioComments /\ dedup_info /= NotRun) =>
    /\ dedup_info.all_comments = <<T_Excelente, T_Excelente, T_caro>>
    /\ DOMAIN dedup_info.duplicate_map = {1}
    /\ dedup_info.duplicate_map[1] = 0
    /\ dedup_info.filtered_indices = <<0, 2>>
    /\ Merged => (Len(Rows) = 3 /\ merged.nps.raised)

\* ------------------------------------------- properties: aggregate report
\* C21: the NPS promoter + passive + detractor counts of the report equal the
\* number of final rows, each row contributing exactly one NPS category
C21_NpsCountsEqualRowCount ==
  Merged =>
    merged.nps_counts.promoter + merged.nps_counts.passive
      + merged.nps_counts.detractor = Len(Rows)

\* the counts are those of the rows of the uploaded file
NpsCountsEqualFileRows ==
  Merged =>
    merged.nps_counts.promoter + merged.nps_counts.passive
      + merged.nps_counts.detractor = Len(comments)

\* ------------------------------------------------ properties: cancellation
\* the polling loop goes round once more
polls_again == pc = "poll" /\ pc' = "poll" /\ elapsed' = elapsed + poll_interval

\* the batches are submitted
submits == pc = "start" /\ pc' = "poll"

\* C22: once the cancellation signal is raised, no further batch is
\* submitted and the wait loop returns instead of polling on
C22_CancellationStopsRun ==
  [][cancelled => (~submits /\ ~polls_again)]_vars

\* after the signal the run goes on as without it: the loop polls on for as
\* long as a subtask is pending
CancelledRunPollsOn ==
  (cancelled /\ pc = "poll" /\ ~ready(batch_results) /\ elapsed < max_wait)
    => ENABLED (elapsed' = elapsed + poll_interval /\ UNCHANGED <<pc, cancelled>>)

\* ---------------------------------------------- properties: parallel batches
\* the batches being dispatched: their coroutine has taken a slot and has not
\* produced its outcome
Dispatching == {b \in DOMAIN coroutines : coroutines[b].at \in {"rate_limit", "post", "sleep"}}

\* C23: the number of batches being dispatched at the same time, retries and
\* backoff waits included, is at most the concurrency limit, and a slot is
\* free for the next batch only when the dispatch that held it has run to
\* completion
C23_DispatchesWithinConcurrencyLimit ==
  coroutines /= <<>> =>
    /\ Cardinality(Dispatching) <= MaxConcurrent
    /\ semaphore = MaxConcurrent - Cardinality(Dispatching)
    /\ \A b \in DOMAIN coroutines :
         (coroutines[b].at = "done") = (coroutines[b].outcome /= NoOutcome)

\* every slot is taken, one dispatch among them waits in its backoff, and a
\* batch waits for a slot
C23_Witness ==
  /\ coroutines /= <<>>
  /\ Cardinality(Dispatching) = MaxConcurrent
  /\ \E b \in Dispatching : coroutines[b].at = "sleep" /\ coroutines[b].attempt > 0
  /\ \E b \in DOMAIN coroutines : coroutines[b].at = "created"
  /\ \E b \in DOMAIN coroutines : coroutines[b].at = "done"

\* C24: every request sent, every retry of the same batch included, is
\* preceded by its own completed acquire on the rate limiter
C24_EveryRequestAcquires ==
  \A b \in DOMAIN coroutines :
    coroutines[b].requests + (IF coroutines[b].at = "post" THEN 1 ELSE 0)
      <= coroutines[b].acquired

\* the first request of a batch is preceded by a completed _rate_limit()
FirstRequestAcquires ==
  \A b \in DOMAIN coroutines :
    (coroutines[b].requests > 0 \/ coroutines[b].at = "post") => coroutines[b].acquired = 1

\* ------------------------------------------------ properties: result length
\* C25: a batch dispatch that returns normally returns exactly one result for
\* each comment of the batch: fewer items of the response are padded with
\* defaults, more are truncated
C25_ResultLengthIsBatchLength ==
  (analysis /= NotRun /\ ~analysis.result.raised) =>
    Len(analysis.result.comments) = expected_count

\* the results have their position in the response as index
ResultsIndexedByPosition ==
  (analysis /= NotRun /\ ~analysis.result.raised) =>
    \A i \in DOMAIN analysis.result.comments : analysis.result.comments[i].index = i - 1

\* ------------------------------------------------------- properties: cache
\* position i + 1 of the list holds the result of comment i: the cached one
\* for a hit, a newly analysed one otherwise
in_original_order(results) ==
  /\ Len(results) = comment_count
  /\ \A i \in 0..(comment_count - 1) :
       /\ i < Len(results) => results[i + 1].of = i
       /\ i < Len(results) =>
            results[i + 1].source = (IF i \in cache_hits THEN "cache" ELSE "new")

\* C26: merge_results returns the complete result list in original order:
\* exactly one entry per original comment, the entry at position i being the
\* cached or newly analysed result of comment i
C26_MergeResultsCompleteInOrder ==
  merge_result /= NotRun => in_original_order(merge_result.results)

\* new_results has one result per uncached comment, in the order of the
\* uncached indices
one_result_each ==
  /\ Len(new_results.list) = Len(uncached_indices)
  /\ \A k \in DOMAIN new_results.list : new_results.list[k].of = uncached_indices[k]

\* with one new result per uncached comment, in order, the merge is complete
\* and in original order
MergeOfMatchingResults ==
  (merge_result /= NotRun /\ one_result_each) => in_original_order(merge_result.results)

\* -------------------------------------------------- properties: the wait
\* C27: the orchestrator's wait for batch completion always terminates: it
\* ends as soon as all batches have reported or after at most max_wait /
\* poll_interval polls, even if batches never complete
C27_WaitTerminates == (pc = "poll") ~> (pc /= "poll")

\* the loop counts its polls and has not run more than max_wait of them
WaitWithinMaxWait == pc = "poll" => elapsed \in 0..max_wait

\* the loop polls again only while some batch has not reported
PollsOnlyWhilePending ==
  [][(pc = "poll" /\ pc' = "poll" /\ elapsed' /= elapsed)
       => (~ready(batch_results) /\ elapsed < max_wait /\ elapsed' = elapsed + poll_interval)]_vars

\* the wait is at its last poll with a batch that has not reported
C27_Witness ==
  /\ pc = "poll"
  /\ elapsed = max_wait
  /\ \E b \in DOMAIN batch_results : batch_results[b].state = "PENDING"

\* ------------------------------------------------ properties: task status
\* C28: the task status becomes COMPLETED only after the task's results have
\* been written to storage: where a reader observes COMPLETED, the results
\* are stored
C28_CompletedOnlyAfterStored ==
  status = "completed" => final_results /= NotRun

\* no run reaches the two writes: merge_batch_results, which precedes them,
\* leaves analyze_feedback with the exception of calculate_nps_metrics
NeverCompleted == status /= "completed" /\ final_results = NotRun

\* C30: FAILED is a terminal status: once the status has been set to FAILED,
\* no later status update moves the task to PROCESSING or COMPLETED
C30_FailedIsTerminal ==
  [][status = "failed" => status' \notin {"processing", "completed"}]_vars

\* a task that has used up its retries stays FAILED
FailedAfterLastRetryIsTerminal ==
  [][(status = "failed" /\ pc = "failed") => status' = "failed"]_vars

\* ------------------------------------------------ properties: worker pool
\* the messages in the queue as a set of positions
Queued(message) == \E k \in DOMAIN queue : queue[k] = message

\* the parents that poll for a subtask that is still in the queue
WaitingForQueued ==
  {p \in DOMAIN parents : /\ parents[p].at = "polling"
                          /\ Queued(BatchMessage(p, parents[p].run))}

\* every process of the pool runs a parent
PoolHeldByParents == \A w \in DOMAIN pool : pool[w].kind = "analyze_feedback"

\* C29: every batch subtask is picked up by a worker: parent tasks polling
\* for their batches never occupy the pool so that their own batch subtasks
\* cannot start
C29_ParentsNeverStarveSubtasks ==
  pool /= <<>> => ~(PoolHeldByParents /\ WaitingForQueued /= {})

\* a parent never sees a subtask of its own ready while the pool is held by
\* parents: with the pool full of parents, a wait ends by the timeout only
StarvedWaitEndsByTimeout ==
  [][(PoolHeldByParents /\ PoolHeldByParents')
       => \A p \in DOMAIN parents : parents'[p].done = parents[p].done
                                    \/ parents'[p].at /= parents[p].at]_vars
====
